---- MODULE Spec2Model ----
(***************************************************************************)
(* GPS/INS fusion of mashi727/iPhone-G-Sensor: the live app's engine       *)
(* (g_sensor_app.py, class GPSINSFusion), the offline viewer's engine      *)
(* (log_viewer.py, class GPSINSFusion), the live tick that drives the      *)
(* first (SensorView._update_display) and the replay loop that drives the  *)
(* second (SensorLogViewer._calculate_ins_track).                          *)
(*                                                                         *)
(* Python floats are modelled in fixed point:                              *)
(*   latitude, longitude    1e-5 degree                                    *)
(*   speed, velocity        cm/s                                           *)
(*   angles                 milliradian (course arguments stay in degrees) *)
(*   cos, sin               thousandths                                    *)
(*   acceleration           milli-g                                        *)
(*   time, dt               decisecond                                     *)
(*   accuracy               metre                                          *)
(*   position uncertainty   cm,  velocity uncertainty  mm/s                *)
(* A product with a float factor is a rounded integer quotient (RDiv).     *)
(* Python's None is the empty sequence, a present value v is <<v>>.        *)
(***************************************************************************)
EXTENDS Integers, Sequences, FiniteSets, TLC

VARIABLES
    program,   \* which of the repository's two programs runs: "app" or "viewer"
    fusion,    \* the live app's GPSINSFusion instance (SensorView.gps_ins_fusion)
    vfusion,   \* the viewer's GPSINSFusion instance (local `fusion` of the replay)
    now,       \* time.time(): the wall clock the app reads, the log's record time
    ret,       \* what the latest engine call returned
    call,      \* the latest engine call and its arguments
    loc,       \* app: what location.get_location() returns
    view,      \* app: the SensorView fields the tick reads and writes
    dead_reckoning,  \* app: SensorView.dead_reckoning
    dr_result, \* app: what the latest tick's update_with_sensors returned
    calls,     \* the engine calls of the latest tick or replayed record, in
               \* order, each with the engine's velocity before and after it
    replay,    \* viewer: the position of _calculate_ins_track in the log
    steps,     \* ticks run, records replayed or calls made so far
    altitude,  \* viewer: an AltitudeFusion, a twin fed another accel_z, what
               \* their latest update returned and its arguments
    outage,    \* engine calls: when the first poor fix since the last good
               \* one was given to the engine (None: none since then)
    last_good  \* engine calls: the latest good fix given to the engine

\* what only the tick and the replay use
driver == <<loc, view, dead_reckoning, dr_result, calls, replay, steps>>

vars == <<program, call, ret, fusion, vfusion, now, driver, altitude, outage,
          last_good>>

(***************************************************************************)
(* Python values                                                           *)
(***************************************************************************)
None == <<>>
Some(v) == <<v>>
IsNone(o) == o = None
Val(o) == o[1]
\* truthiness of an optional number: None and 0 are false
Truthy(o) == o # None /\ Val(o) # 0

(***************************************************************************)
(* Arithmetic                                                              *)
(***************************************************************************)
Abs(x) == IF x < 0 THEN -x ELSE x
Sgn(x) == IF x < 0 THEN -1 ELSE 1

\* a / b rounded to the nearest integer, halves away from zero (b # 0)
RDiv(a, b) == Sgn(a) * Sgn(b) * ((2 * Abs(a) + Abs(b)) \div (2 * Abs(b)))

RECURSIVE SqrtSearch(_, _, _)
SqrtSearch(x, lo, hi) ==
    IF lo >= hi THEN lo
    ELSE LET mid == (lo + hi + 1) \div 2
         IN  IF mid * mid <= x THEN SqrtSearch(x, mid, hi)
             ELSE SqrtSearch(x, lo, mid - 1)

\* math.sqrt on a non-negative integer, rounded down
Sqrt(x) == SqrtSearch(x, 0, 8191)

PI == 3142
TWO_PI == 2 * PI

\* Bhaskara's rational approximation of the sine, in thousandths, from
\* p = x * (PI - x) / 100 (exact at 0, PI/2 and PI)
Bhaskara(p) == RDiv(16000 * p, RDiv(5 * PI * PI, 100) - 4 * p)

\* sine of x milliradians with 0 <= x <= PI, in thousandths
SinHalfTurn(x) == Bhaskara(RDiv(x * (PI - x), 100))

\* math.sin / math.cos of x milliradians, in thousandths
Sin(x) ==
    LET r == x % TWO_PI
    IN  IF r <= PI THEN SinHalfTurn(r) ELSE -SinHalfTurn(r - PI)

Cos(x) == Sin(x + PI \div 2)

\* math.radians of whole degrees, in milliradians
Radians(deg) == RDiv(deg * PI, 180)

\* math.degrees of milliradians, in whole degrees
Degrees(mrad) == RDiv(mrad * 180, PI)

\* math.radians of a latitude held in 1e-5 degree
LatRadians(lat) == RDiv(RDiv(lat, 100) * PI, 180000)

EARTH_RADIUS == 6378137

\* math.degrees(d / EARTH_RADIUS) for a displacement of d millimetres,
\* in 1e-5 degree: d * 18000 / (6378 * PI), the fraction reduced by 12 to
\* keep the product within 32 bits
ArcDegrees(d) == RDiv(d * 1500, ((EARTH_RADIUS \div 1000) * PI) \div 12)

\* a float cosine is never exactly zero
NonZero(c) == IF c = 0 THEN 1 ELSE c

\* math.cos(math.radians(lat))
CosLat(lat) == NonZero(Cos(LatRadians(lat)))

\* x * (num / den) for a float factor num/den
Times(x, num, den) == RDiv(x * num, den)

\* speed * math.cos(course_rad), speed * math.sin(course_rad)
NorthOf(speed, angle) == RDiv(speed * Cos(angle), 1000)
EastOf(speed, angle) == RDiv(speed * Sin(angle), 1000)

\* a yaw difference left as it is
RawYaw(delta_yaw) == delta_yaw

\* the yaw difference as the code folds it
WrapYaw(delta_yaw) ==
    IF delta_yaw > PI THEN delta_yaw - TWO_PI
    ELSE IF delta_yaw < -PI THEN delta_yaw + TWO_PI
    ELSE delta_yaw

(***************************************************************************)
(* Class constants of GPSINSFusion (the same in both programs)             *)
(***************************************************************************)
ACCURACY_THRESHOLD_GOOD == 15
ACCURACY_THRESHOLD_DEGRADE == 30
MEMORY_MAX_DURATION == 600
\* a remembered velocity that never fades
MemoryKept(x) == x

\* MEMORY_VELOCITY_DECAY = 0.98
MemoryDecay(x) == Times(x, 98, 100)
\* the motion threshold 0.3 m/s of the memory tests
MOTION_THRESHOLD == 30

\* a good-accuracy test that reaches up to the degrade threshold
GoodBelowDegrade(accuracy) ==
    accuracy >= 0 /\ accuracy < ACCURACY_THRESHOLD_DEGRADE

\* accuracy >= 0 and accuracy < ACCURACY_THRESHOLD_GOOD
IsGoodAccuracy(accuracy) ==
    accuracy >= 0 /\ accuracy < ACCURACY_THRESHOLD_GOOD

\* a degrade test that lets a negative accuracy through
DegradedIgnoringInvalid(accuracy) == accuracy >= ACCURACY_THRESHOLD_DEGRADE

\* a degrade test that starts at the good threshold
DegradedAboveGood(accuracy) == accuracy < 0 \/ accuracy >= ACCURACY_THRESHOLD_GOOD

\* accuracy < 0 or accuracy >= ACCURACY_THRESHOLD_DEGRADE
IsDegradedAccuracy(accuracy) ==
    accuracy < 0 \/ accuracy >= ACCURACY_THRESHOLD_DEGRADE

\* a weight of 1 / (1 + accuracy), as if the accuracy were in decametres
gps_weight_per_metre(accuracy) == <<1, 1 + accuracy>>

\* gps_weight = 1.0 / (1.0 + accuracy / 10.0), kept as the exact fraction
\* <<numerator, denominator>> = 10 / (10 + accuracy)
gps_weight(accuracy) == <<10, 10 + accuracy>>

\* (1 - w) * old + w * new for a weight w = <<num, den>>
Blend(w, old, new) == RDiv((w[2] - w[1]) * old + w[1] * new, w[2])

(***************************************************************************)
(* The live app's engine: g_sensor_app.py, class GPSINSFusion              *)
(***************************************************************************)
\* a reset that forgets to clear the yaw of the last sample
reset_keeping_yaw ==
    [ current_lat            |-> None,
      current_lon            |-> None,
      velocity_north         |-> 0,
      velocity_east          |-> 0,
      position_uncertainty   |-> 1000,
      velocity_uncertainty   |-> 1000,
      track                  |-> <<>>,
      is_initialized         |-> FALSE,
      last_yaw               |-> Some(0),
      current_heading        |-> 0,
      memory_velocity_north  |-> 0,
      memory_velocity_east   |-> 0,
      memory_heading         |-> 0,
      memory_speed           |-> 0,
      is_memory_mode         |-> FALSE,
      memory_mode_start_time |-> None,
      last_good_gps_time     |-> None ]

\* reset(): the state every field is set to (also the state after __init__)
reset ==
    [ current_lat            |-> None,
      current_lon            |-> None,
      velocity_north         |-> 0,
      velocity_east          |-> 0,
      position_uncertainty   |-> 1000,
      velocity_uncertainty   |-> 1000,
      track                  |-> <<>>,
      is_initialized         |-> FALSE,
      last_yaw               |-> None,
      current_heading        |-> 0,
      memory_velocity_north  |-> 0,
      memory_velocity_east   |-> 0,
      memory_heading         |-> 0,
      memory_speed           |-> 0,
      is_memory_mode         |-> FALSE,
      memory_mode_start_time |-> None,
      last_good_gps_time     |-> None ]

initialize(self, lat, lon) ==
    [self EXCEPT !.current_lat = Some(lat),
                 !.current_lon = Some(lon),
                 !.track = << <<lat, lon>> >>,
                 !.is_initialized = TRUE]

\* update_gps, "GPS精度が良好な場合": remember the velocity of a good fix and
\* leave memory mode
remember_good_fix(self, speed, course, accuracy, current_time) ==
    IF IsGoodAccuracy(accuracy)
    THEN LET course_rad == Radians(course)
             m == IF course >= 0 /\ speed > MOTION_THRESHOLD
                  THEN [self EXCEPT
                          !.memory_velocity_north = NorthOf(speed, course_rad),
                          !.memory_velocity_east = EastOf(speed, course_rad),
                          !.memory_heading = course_rad,
                          !.memory_speed = speed]
                  ELSE self
         IN  [m EXCEPT !.last_good_gps_time = Some(current_time),
                       !.is_memory_mode = FALSE,
                       !.memory_mode_start_time =
                           IF m.is_memory_mode THEN None ELSE @]
    ELSE self

\* a degraded branch that stamps the entry again at every poor fix
enter_memory_mode_again(self, current_time) ==
    IF self.memory_speed > MOTION_THRESHOLD
    THEN [self EXCEPT !.is_memory_mode = TRUE,
                      !.memory_mode_start_time = Some(current_time)]
    ELSE self

\* update_gps, "GPS精度が悪化した場合": the body of the degraded branch
enter_memory_mode(self, current_time) ==
    IF ~self.is_memory_mode /\ self.memory_speed > MOTION_THRESHOLD
    THEN [self EXCEPT !.is_memory_mode = TRUE,
                      !.memory_mode_start_time = Some(current_time)]
    ELSE self

\* a position uncertainty that adds the accuracy instead of averaging
summed_uncertainty(accuracy, old) == accuracy * 100 + old

\* update_gps, "不確実性の更新": accuracy * 0.5 + position_uncertainty * 0.5
mean_uncertainty(accuracy, old) == RDiv(accuracy * 100 + old, 2)

\* update_gps, "通常のGPS更新処理": blend position and velocity, shrink the
\* uncertainties, append to the track
apply_fix(self, lat, lon, speed, course, accuracy) ==
    LET w == gps_weight(accuracy)
        new_lat == Blend(w, Val(self.current_lat), lat)
        new_lon == Blend(w, Val(self.current_lon), lon)
        course_rad == Radians(course)
        vel_weight == <<w[1], 2 * w[2]>>          \* gps_weight * 0.5
        corrected == course >= 0 /\ speed > 50     \* speed > 0.5
    IN  [self EXCEPT
           !.current_lat = Some(new_lat),
           !.current_lon = Some(new_lon),
           !.velocity_north =
               IF corrected
               THEN Blend(vel_weight, @, NorthOf(speed, course_rad)) ELSE @,
           !.velocity_east =
               IF corrected
               THEN Blend(vel_weight, @, EastOf(speed, course_rad)) ELSE @,
           !.current_heading = IF corrected THEN course_rad ELSE @,
           !.position_uncertainty = mean_uncertainty(accuracy, @),
           !.velocity_uncertainty = Times(@, 9, 10),
           !.track = Append(@, <<new_lat, new_lon>>)]

update_gps(self, lat, lon, speed, course, accuracy, current_time) ==
    IF ~self.is_initialized
    THEN initialize(self, lat, lon)
    ELSE LET remembered ==
                 remember_good_fix(self, speed, course, accuracy, current_time)
         IN  IF IsDegradedAccuracy(accuracy)
             THEN enter_memory_mode(remembered, current_time)
             ELSE apply_fix(remembered, lat, lon, speed, course, accuracy)

\* a memory test that never expires
use_memory_track_unlimited(self, current_time) ==
    /\ self.is_memory_mode
    /\ Truthy(self.memory_mode_start_time)
    /\ self.memory_speed > MOTION_THRESHOLD

\* update_ins, "メモリートラックモードの判定"
use_memory_track(self, current_time) ==
    /\ self.is_memory_mode
    /\ Truthy(self.memory_mode_start_time)
    /\ current_time - Val(self.memory_mode_start_time) < MEMORY_MAX_DURATION
    /\ self.memory_speed > MOTION_THRESHOLD

\* delta_lon of a velocity integrated over dt at latitude lat
DeltaLon(vel_east, dt, lat) == RDiv(ArcDegrees(vel_east * dt) * 1000, CosLat(lat))

\* update_ins: the yaw bookkeeping both branches share; the heading the
\* branch turns is memory_heading or current_heading
yaw_delta(self, attitude) ==
    IF attitude # None /\ self.last_yaw # None
    THEN WrapYaw(attitude[3] - Val(self.last_yaw))
    ELSE 0

\* update_ins, "メモリートラックモード": decay the remembered velocity and move
\* with the remembered speed along the (already turned) remembered heading
memory_move(self, dt) ==
    [self EXCEPT
       !.memory_velocity_north = MemoryDecay(@),
       !.memory_velocity_east = MemoryDecay(@),
       !.memory_speed = MemoryDecay(@),
       !.current_lat =
           Some(Val(@) + ArcDegrees(
               NorthOf(MemoryDecay(self.memory_speed), self.memory_heading) * dt)),
       !.current_lon =
           Some(Val(@) + DeltaLon(
               EastOf(MemoryDecay(self.memory_speed), self.memory_heading),
               dt, Val(self.current_lat)))]

\* update_ins, "ジャイロで方位変化のみ検出": turn the remembered heading
memory_turn(self, attitude) ==
    [self EXCEPT
       !.memory_heading = @ + yaw_delta(self, attitude),
       !.last_yaw = IF attitude # None THEN Some(attitude[3]) ELSE @]

memory_step(self, attitude, dt) == memory_move(memory_turn(self, attitude), dt)

\* device-frame acceleration <<forward, right>> turned to <<north, east>>
rotate(accel_forward, accel_right, heading) ==
    << RDiv(accel_forward * Cos(heading) - accel_right * Sin(heading), 1000),
       RDiv(accel_forward * Sin(heading) + accel_right * Cos(heading), 1000) >>

\* update_ins, "ピッチ・ロール補正" and "デバイス座標から世界座標へ"
accel_world(user_accel, attitude) ==
    rotate(RDiv(user_accel[2] * Cos(attitude[2])
                - user_accel[3] * Sin(attitude[2]), 1000),
           RDiv(user_accel[1] * Cos(attitude[1]), 1000),
           (3 * PI) \div 2 - attitude[3])

\* accel_mag = sqrt(ax^2 + ay^2 + az^2)
accel_mag(user_accel) ==
    Sqrt(user_accel[1] * user_accel[1] + user_accel[2] * user_accel[2]
         + user_accel[3] * user_accel[3])

\* update_ins, "静止検出（ZUPT）": the velocity pair <<north, east>> after the
\* stationary test and the acceleration integration
zupt(self, user_accel, accel, dt) ==
    IF accel_mag(user_accel) < 80
    THEN <<Times(self.velocity_north, 8, 10), Times(self.velocity_east, 8, 10)>>
    ELSE IF Abs(user_accel[1]) > 50 \/ Abs(user_accel[2]) > 50
    THEN <<self.velocity_north + RDiv(accel[1] * 981 * dt, 10000),
           self.velocity_east + RDiv(accel[2] * 981 * dt, 10000)>>
    ELSE <<self.velocity_north, self.velocity_east>>

integrate_accel(self, user_accel, attitude, dt) ==
    IF user_accel # None /\ attitude # None
    THEN zupt(self, user_accel, accel_world(user_accel, attitude), dt)
    ELSE <<self.velocity_north, self.velocity_east>>

\* update_ins, "速度の減衰（ドリフト抑制）"
decay(v) == <<Times(v[1], 99, 100), Times(v[2], 99, 100)>>

\* the velocity pair before the clamp
decayed_velocity(self, user_accel, attitude, dt) ==
    decay(integrate_accel(self, user_accel, attitude, dt))

\* speed = sqrt(velocity_north^2 + velocity_east^2)
SpeedOf(v) == Sqrt(v[1] * v[1] + v[2] * v[2])

\* both components scaled by max_speed / speed
scale_to_max(v, speed) ==
    <<RDiv(v[1] * 1000, speed), RDiv(v[2] * 1000, speed)>>

\* a limit that lets every speed through
keep_speed(v) == v

\* update_ins, "最大速度制限"
clamp_speed(v) == IF SpeedOf(v) > 1000 THEN scale_to_max(v, SpeedOf(v)) ELSE v

\* update_ins, "ヨー角の変化から方位を更新"
ins_turn(self, attitude) ==
    [self EXCEPT
       !.current_heading = @ + yaw_delta(self, attitude),
       !.last_yaw = IF attitude # None THEN Some(attitude[3]) ELSE @]

\* update_ins, "位置の更新": adopt the velocity v and integrate it
ins_move(self, v, dt) ==
    [self EXCEPT
       !.velocity_north = v[1],
       !.velocity_east = v[2],
       !.current_lat = Some(Val(@) + ArcDegrees(v[1] * dt)),
       !.current_lon = Some(Val(@) + DeltaLon(v[2], dt, Val(self.current_lat)))]

\* update_ins, "通常INSモード"
ins_step(self, user_accel, attitude, dt) ==
    ins_move(ins_turn(self, attitude),
             clamp_speed(decayed_velocity(self, user_accel, attitude, dt)), dt)

\* an end of update_ins that lets the uncertainties settle
finish_ins_settling(self, dt) ==
    [self EXCEPT
       !.position_uncertainty = @ - dt,
       !.velocity_uncertainty = @ - 5 * dt,
       !.track = Append(@, <<Val(self.current_lat), Val(self.current_lon)>>)]

\* an end of update_ins that appends nothing
finish_ins_silent(self, dt) ==
    [self EXCEPT
       !.position_uncertainty = @ + dt,
       !.velocity_uncertainty = @ + 5 * dt]

\* an end of update_ins that moves the last entry of the track
finish_ins_moving_last(self, dt) ==
    [self EXCEPT
       !.position_uncertainty = @ + dt,
       !.velocity_uncertainty = @ + 5 * dt,
       !.track = [@ EXCEPT ![Len(@)] =
                      <<Val(self.current_lat), Val(self.current_lon)>>]]

\* update_ins, "不確実性の増加" and "軌跡に追加"
finish_ins(self, dt) ==
    [self EXCEPT
       !.position_uncertainty = @ + dt,          \* 0.1 m/s * dt
       !.velocity_uncertainty = @ + 5 * dt,      \* 0.05 m/s^2 * dt
       !.track = Append(@, <<Val(self.current_lat), Val(self.current_lon)>>)]

\* the dict update_ins returns
ins_return(after, speed, heading, mode, memory_elapsed) ==
    Some([lat |-> Val(after.current_lat),
          lon |-> Val(after.current_lon),
          speed |-> speed,
          heading |-> Degrees(heading),
          mode |-> mode,
          memory_elapsed |-> memory_elapsed])

\* the engine and the return value of a memory-track update_ins
memory_outcome(after, memory_elapsed) ==
    [self |-> after,
     result |-> ins_return(after, after.memory_speed, after.memory_heading,
                           "memory_track", memory_elapsed)]

\* the engine and the return value of an inertial update_ins
ins_outcome(after, speed) ==
    [self |-> after,
     result |-> ins_return(after, speed, after.current_heading, "ins", 0)]

\* an update_ins whose uninitialized engine still ages its uncertainties
update_ins_unguarded(self, user_accel, attitude, dt, current_time) ==
    IF ~self.is_initialized \/ self.current_lat = None
    THEN [self |-> [self EXCEPT !.position_uncertainty = @ + dt,
                                !.velocity_uncertainty = @ + 5 * dt],
          result |-> None]
    ELSE ins_outcome(finish_ins(ins_step(self, user_accel, attitude, dt), dt),
                     SpeedOf(decayed_velocity(self, user_accel, attitude, dt)))

\* update_ins: the engine after the call and the value returned
update_ins(self, user_accel, attitude, dt, current_time) ==
    IF ~self.is_initialized \/ self.current_lat = None
    THEN [self |-> self, result |-> None]
    ELSE IF use_memory_track(self, current_time)
    THEN memory_outcome(finish_ins(memory_step(self, attitude, dt), dt),
                        current_time - Val(self.memory_mode_start_time))
    ELSE ins_outcome(finish_ins(ins_step(self, user_accel, attitude, dt), dt),
                     SpeedOf(decayed_velocity(self, user_accel, attitude, dt)))

(***************************************************************************)
(* The viewer's engine: log_viewer.py, class GPSINSFusion                  *)
(***************************************************************************)
\* __init__(start_lat, start_lon)
viewer_init(start_lat, start_lon) ==
    [ current_lat            |-> start_lat,
      current_lon            |-> start_lon,
      velocity_north         |-> 0,
      velocity_east          |-> 0,
      position_uncertainty   |-> 1000,
      velocity_uncertainty   |-> 1000,
      last_gps_lat           |-> start_lat,
      last_gps_lon           |-> start_lon,
      last_gps_time          |-> None,
      memory_velocity_north  |-> 0,
      memory_velocity_east   |-> 0,
      memory_heading         |-> 0,
      memory_speed           |-> 0,
      is_memory_mode         |-> FALSE,
      memory_mode_start_time |-> None,
      last_good_gps_time     |-> None,
      track                  |-> << <<start_lat, start_lon, "gps">> >> ]

\* update_gps, "GPS精度が良好な場合" (timestamp is None or <<t>>)
viewer_remember_good_fix(self, speed, course, accuracy, timestamp) ==
    IF IsGoodAccuracy(accuracy)
    THEN LET course_rad == Radians(course)
             m == IF course >= 0 /\ speed > MOTION_THRESHOLD
                  THEN [self EXCEPT
                          !.memory_velocity_north = NorthOf(speed, course_rad),
                          !.memory_velocity_east = EastOf(speed, course_rad),
                          !.memory_heading = course_rad,
                          !.memory_speed = speed]
                  ELSE self
         IN  [m EXCEPT !.last_good_gps_time = timestamp,
                       !.is_memory_mode = FALSE,
                       !.memory_mode_start_time =
                           IF m.is_memory_mode THEN None ELSE @]
    ELSE self

\* update_gps, "GPS精度が悪化した場合"
viewer_enter_memory_mode(self, timestamp) ==
    IF ~self.is_memory_mode /\ self.memory_speed > MOTION_THRESHOLD
    THEN [self EXCEPT !.is_memory_mode = TRUE,
                      !.memory_mode_start_time = timestamp]
    ELSE self

\* update_gps, "通常のGPS更新処理"
viewer_apply_fix(self, lat, lon, speed, course, accuracy, timestamp) ==
    LET w == gps_weight(accuracy)
        new_lat == Blend(w, self.current_lat, lat)
        new_lon == Blend(w, self.current_lon, lon)
        course_rad == Radians(course)
        vel_weight == <<8 * w[1], 10 * w[2]>>      \* gps_weight * 0.8
        corrected == speed >= 0 /\ course >= 0
    IN  [self EXCEPT
           !.current_lat = new_lat,
           !.current_lon = new_lon,
           !.velocity_north =
               IF corrected
               THEN Blend(vel_weight, @, NorthOf(speed, course_rad)) ELSE @,
           !.velocity_east =
               IF corrected
               THEN Blend(vel_weight, @, EastOf(speed, course_rad)) ELSE @,
           !.position_uncertainty = accuracy * 100,
           !.velocity_uncertainty = accuracy * 100,   \* accuracy / 10.0 m/s
           !.last_gps_lat = lat,
           !.last_gps_lon = lon,
           !.last_gps_time = timestamp,
           !.track = Append(@, <<new_lat, new_lon, "fused">>)]

viewer_update_gps(self, lat, lon, speed, course, accuracy, timestamp) ==
    LET remembered ==
            viewer_remember_good_fix(self, speed, course, accuracy, timestamp)
    IN  IF IsDegradedAccuracy(accuracy)
        THEN viewer_enter_memory_mode(remembered, timestamp)
        ELSE viewer_apply_fix(remembered, lat, lon, speed, course, accuracy, timestamp)

\* update_ins, "メモリートラックモードの判定" (timestamp is None or <<t>>)
viewer_use_memory_track(self, timestamp) ==
    /\ self.is_memory_mode
    /\ Truthy(self.memory_mode_start_time)
    /\ Truthy(timestamp)
    /\ Val(timestamp) - Val(self.memory_mode_start_time) < MEMORY_MAX_DURATION
    /\ self.memory_speed > MOTION_THRESHOLD

\* update_ins, "メモリートラックモード": decay and move
viewer_memory_move(self, dt) ==
    [self EXCEPT
       !.memory_velocity_north = MemoryDecay(@),
       !.memory_velocity_east = MemoryDecay(@),
       !.memory_speed = MemoryDecay(@),
       !.current_lat =
           @ + ArcDegrees(
               NorthOf(MemoryDecay(self.memory_speed), self.memory_heading) * dt),
       !.current_lon =
           @ + DeltaLon(
               EastOf(MemoryDecay(self.memory_speed), self.memory_heading),
               dt, self.current_lat)]

\* update_ins, "簡易的に現在のyawから方位を更新"
viewer_memory_turn(self, attitude) ==
    IF attitude # None
    THEN [self EXCEPT !.memory_heading = (3 * PI) \div 2 - attitude[3]]
    ELSE self

viewer_memory_step(self, attitude, dt) ==
    viewer_memory_move(viewer_memory_turn(self, attitude), dt)

\* cur_roll, cur_pitch and yaw of the sample; all zero without attitude
\* (the heading 3*pi/2 - yaw is then replaced by 0 below)
viewer_accel_world(user_accel, attitude) ==
    IF attitude # None
    THEN accel_world(user_accel, attitude)
    ELSE rotate(user_accel[2], user_accel[1], 0)

\* update_ins, the stationary test and the integration of <<north, east>>;
\* forward is the pitch-corrected ay, right the roll-corrected ax
viewer_zupt(self, user_accel, forward, right, accel, dt) ==
    IF accel_mag(user_accel) < 30
    THEN <<Times(self.velocity_north, 8, 10), Times(self.velocity_east, 8, 10)>>
    ELSE IF Abs(forward) > 50 \/ Abs(right) > 50
    THEN <<self.velocity_north + RDiv(accel[1] * 981 * dt, 10000),
           self.velocity_east + RDiv(accel[2] * 981 * dt, 10000)>>
    ELSE <<self.velocity_north, self.velocity_east>>

\* accel_forward = ay * cos_pitch - az * sin_pitch
viewer_forward(user_accel, attitude) ==
    IF attitude # None
    THEN RDiv(user_accel[2] * Cos(attitude[2])
              - user_accel[3] * Sin(attitude[2]), 1000)
    ELSE user_accel[2]

\* accel_right = ax * cos_roll
viewer_right(user_accel, attitude) ==
    IF attitude # None
    THEN RDiv(user_accel[1] * Cos(attitude[1]), 1000)
    ELSE user_accel[1]

\* update_ins, "加速度を世界座標系に変換": the velocity pair after it
viewer_integrate_accel(self, user_accel, attitude, dt) ==
    IF user_accel # None
    THEN viewer_zupt(self, user_accel,
                     viewer_forward(user_accel, attitude),
                     viewer_right(user_accel, attitude),
                     viewer_accel_world(user_accel, attitude), dt)
    ELSE <<self.velocity_north, self.velocity_east>>

\* update_ins, "位置を更新"
viewer_ins_move(self, v, dt) ==
    [self EXCEPT
       !.velocity_north = v[1],
       !.velocity_east = v[2],
       !.current_lat = @ + ArcDegrees(v[1] * dt),
       !.current_lon = @ + DeltaLon(v[2], dt, self.current_lat)]

\* update_ins, "通常INSモード"
viewer_ins_step(self, user_accel, attitude, dt) ==
    viewer_ins_move(
        self,
        clamp_speed(decay(viewer_integrate_accel(self, user_accel, attitude, dt))),
        dt)

\* update_ins, "不確実性を増加" and the track append
viewer_finish_ins(self, dt, track_type) ==
    [self EXCEPT
       !.position_uncertainty = @ + 5 * dt,      \* 0.5 m/s * dt
       !.velocity_uncertainty = @ + 10 * dt,     \* 0.1 m/s^2 * dt
       !.track = Append(@, <<self.current_lat, self.current_lon, track_type>>)]

viewer_update_ins(self, user_accel, attitude, dt, timestamp) ==
    IF dt <= 0
    THEN self
    ELSE IF viewer_use_memory_track(self, timestamp)
    THEN viewer_finish_ins(viewer_memory_step(self, attitude, dt), dt, "memory")
    ELSE viewer_finish_ins(viewer_ins_step(self, user_accel, attitude, dt), dt, "ins")

(***************************************************************************)
(* The live app's fallback: g_sensor_app.py, class DeadReckoning           *)
(***************************************************************************)
\* reset(): the state every field is set to (also the state after __init__)
dr_reset ==
    [ last_gps_lat    |-> None,
      last_gps_lon    |-> None,
      last_gps_speed  |-> 0,
      last_gps_course |-> 0,
      last_gps_time   |-> None,
      current_lat     |-> None,
      current_lon     |-> None,
      velocity_north  |-> 0,
      velocity_east   |-> 0,
      last_yaw        |-> None,
      current_heading |-> 0,
      is_active       |-> FALSE,
      dr_start_time   |-> None ]

\* DeadReckoning.update_gps(lat, lon, speed, course, timestamp)
dr_update_gps(self, lat, lon, speed, course, timestamp) ==
    [self EXCEPT
       !.last_gps_lat = Some(lat),
       !.last_gps_lon = Some(lon),
       !.last_gps_speed = speed,
       !.last_gps_course = course,
       !.last_gps_time = timestamp,
       !.current_lat = Some(lat),
       !.current_lon = Some(lon),
       !.velocity_north = NorthOf(speed, Radians(course)),
       !.velocity_east = EastOf(speed, Radians(course)),
       !.current_heading = Radians(course),
       !.is_active = FALSE,
       !.dr_start_time = None]

\* a start that does not ask for a snapshot
start_without_snapshot(self, current_time) ==
    [self EXCEPT !.is_active = TRUE,
                 !.dr_start_time = Some(current_time)]

\* what start_dead_reckoning() returns
start_result(self) == self.last_gps_lat # None

\* DeadReckoning.start_dead_reckoning() at time.time() = current_time
start_dead_reckoning(self, current_time) ==
    IF self.last_gps_lat = None
    THEN self
    ELSE [self EXCEPT !.is_active = TRUE,
                      !.dr_start_time = Some(current_time)]

\* update_with_sensors: the heading turned by the wrapped yaw difference
dr_turn(self, attitude) ==
    [self EXCEPT
       !.current_heading = @ + yaw_delta(self, attitude),
       !.last_yaw = IF attitude # None THEN Some(attitude[3]) ELSE @]

\* update_with_sensors: acceleration turned by the current heading and
\* integrated above the threshold; the velocity pair <<north, east>>
dr_integrate(self, user_accel, accel, dt) ==
    IF Abs(user_accel[1]) > 50 \/ Abs(user_accel[2]) > 50
    THEN <<self.velocity_north + RDiv(accel[1] * 981 * dt, 10000),
           self.velocity_east + RDiv(accel[2] * 981 * dt, 10000)>>
    ELSE <<self.velocity_north, self.velocity_east>>

dr_velocity(self, user_accel, dt) ==
    IF user_accel # None
    THEN dr_integrate(self, user_accel,
                      rotate(user_accel[2], user_accel[1], self.current_heading),
                      dt)
    ELSE <<self.velocity_north, self.velocity_east>>

\* decay = 0.995
dr_decay(v) == <<Times(v[1], 995, 1000), Times(v[2], 995, 1000)>>

\* update_with_sensors: turn, integrate, decay, move
dr_step(self, user_accel, attitude, dt) ==
    ins_move(dr_turn(self, attitude),
             dr_decay(dr_velocity(dr_turn(self, attitude), user_accel, dt)),
             dt)

\* the dict update_with_sensors returns (its debug entry kept to delta_yaw)
dr_return(after, delta_yaw, elapsed) ==
    Some([lat |-> Val(after.current_lat),
          lon |-> Val(after.current_lon),
          speed |-> SpeedOf(<<after.velocity_north, after.velocity_east>>),
          heading |-> Degrees(after.current_heading),
          elapsed |-> elapsed,
          delta_yaw |-> delta_yaw])

\* DeadReckoning.update_with_sensors(user_accel, attitude, dt): the estimator
\* after the call and the value returned
update_with_sensors(self, user_accel, attitude, dt, current_time) ==
    IF ~self.is_active \/ self.current_lat = None
    THEN [self |-> self, result |-> None]
    ELSE [self |-> dr_step(self, user_accel, attitude, dt),
          result |-> dr_return(dr_step(self, user_accel, attitude, dt),
                               yaw_delta(self, attitude),
                               current_time - Val(self.dr_start_time))]

(***************************************************************************)
(* The viewer's altitude estimate: log_viewer.py, class AltitudeFusion     *)
(* altitudes in centimetres, vertical accuracy in metres, vertical         *)
(* velocity in cm/s, accel_z in milli-g                                    *)
(***************************************************************************)
\* __init__() and reset()
altitude_reset ==
    [ gps_altitude      |-> None,
      baro_reference    |-> None,
      fused_altitude    |-> None,
      vertical_velocity |-> 0 ]

\* an altitude test that takes 0 for an altitude
AltitudeGiven(gps_alt) == gps_alt # None

\* gps_alt is not None and gps_alt != 0
HasAltitude(gps_alt) == gps_alt # None /\ Val(gps_alt) # 0

\* update, "GPS高度で初期化": the estimator after the first altitude
altitude_anchor(self, gps_alt, baro_relative) ==
    [self EXCEPT
       !.gps_altitude = gps_alt,
       !.baro_reference = IF baro_relative # None THEN baro_relative ELSE Some(0),
       !.fused_altitude = gps_alt]

\* a fused altitude that echoes the satellite anchor
altitude_echo(self, gps_alt, baro_relative) ==
    IF baro_relative # None /\ self.baro_reference # None
    THEN self.gps_altitude
    ELSE IF HasAltitude(gps_alt) THEN gps_alt
    ELSE self.fused_altitude

\* update, "気圧計による高度変化": fused_altitude of an anchored estimator
altitude_fused(self, gps_alt, baro_relative) ==
    IF baro_relative # None /\ self.baro_reference # None
    THEN Some(Val(self.gps_altitude)
              + (Val(baro_relative) - Val(self.baro_reference)))
    ELSE IF HasAltitude(gps_alt) THEN gps_alt
    ELSE self.fused_altitude

\* update, "加速度Z軸による補助": vertical_velocity
altitude_velocity(self, accel_z, dt) ==
    IF accel_z # None /\ dt > 0
    THEN Times(self.vertical_velocity + RDiv(Val(accel_z) * 981 * dt, 10000),
               95, 100)
    ELSE self.vertical_velocity

\* gps_v_acc is not None and gps_v_acc > 0 and gps_v_acc < 15
GoodVerticalAccuracy(gps_v_acc) ==
    gps_v_acc # None /\ Val(gps_v_acc) > 0 /\ Val(gps_v_acc) < 15

\* update, "GPS精度が良い時は基準を補正": self.baro_reference = baro_relative
new_reference(old, baro_relative) ==
    IF baro_relative # None THEN baro_relative ELSE old

\* update, "GPS精度が良い時は基準を補正": both anchors
altitude_reanchor(self, gps_alt, gps_v_acc, baro_relative) ==
    IF gps_alt # None /\ GoodVerticalAccuracy(gps_v_acc)
    THEN [self EXCEPT
            !.gps_altitude = Some(RDiv(7 * Val(@) + 3 * Val(gps_alt), 10)),
            !.baro_reference = new_reference(@, baro_relative)]
    ELSE self

\* update on an anchored estimator
altitude_track(self, gps_alt, gps_v_acc, baro_relative, accel_z, dt) ==
    altitude_reanchor(
        [self EXCEPT
           !.fused_altitude = altitude_fused(self, gps_alt, baro_relative),
           !.vertical_velocity = altitude_velocity(self, accel_z, dt)],
        gps_alt, gps_v_acc, baro_relative)

\* an update whose fused altitude is pushed by the vertical velocity
altitude_update_pushed(self, gps_alt, gps_v_acc, baro_relative, accel_z, dt) ==
    IF self.gps_altitude = None
    THEN IF HasAltitude(gps_alt)
         THEN altitude_anchor(self, gps_alt, baro_relative)
         ELSE self
    ELSE [altitude_track(self, gps_alt, gps_v_acc, baro_relative, accel_z, dt)
            EXCEPT !.fused_altitude =
                IF @ # None
                THEN Some(Val(@) + altitude_velocity(self, accel_z, dt))
                ELSE @]

\* AltitudeFusion.update(gps_alt, gps_v_acc, baro_relative, accel_z, dt):
\* the estimator after the call; the call returns its fused_altitude
altitude_update(self, gps_alt, gps_v_acc, baro_relative, accel_z, dt) ==
    IF self.gps_altitude = None
    THEN IF HasAltitude(gps_alt)
         THEN altitude_anchor(self, gps_alt, baro_relative)
         ELSE self
    ELSE altitude_track(self, gps_alt, gps_v_acc, baro_relative, accel_z, dt)

(***************************************************************************)
(* The live tick: g_sensor_app.py, class SensorView                        *)
(***************************************************************************)
\* _gps_timeout = 5.0
GPS_TIMEOUT == 50

\* the fields __init__ sets; _last_gps_update_time is an attribute that
\* does not exist yet (None here); current_time is time.time() at start
view_init(current_time) ==
    [ logging_enabled      |-> FALSE,
      dr_mode              |-> FALSE,
      last_gps_timestamp   |-> None,
      last_gps_update_time |-> None,
      last_update_time     |-> current_time ]

\* _update_gps_status: the time of the last change of the fix timestamp
gps_update_time(v, timestamp, current_time) ==
    IF timestamp # None /\ v.last_gps_timestamp # timestamp THEN current_time
    ELSE IF v.last_gps_update_time = None THEN current_time
    ELSE Val(v.last_gps_update_time)

\* _update_gps_status(h_acc, timestamp), is_dr False: the view after it
gps_status_view(v, timestamp, current_time) ==
    [v EXCEPT
       !.last_gps_timestamp =
           IF timestamp # None /\ @ # timestamp THEN timestamp ELSE @,
       !.last_gps_update_time = Some(gps_update_time(v, timestamp, current_time))]

\* _update_gps_status(h_acc, timestamp), is_dr False: what it returns
gps_no_signal(v, timestamp, current_time) ==
    \/ timestamp = None
    \/ current_time - gps_update_time(v, timestamp, current_time) > GPS_TIMEOUT

\* the entry of the calls log for a call of op that took the engine from
\* before to after
CallEntry(op, before, after) ==
    [ op     |-> op,
      before |-> <<before.velocity_north, before.velocity_east>>,
      after  |-> <<after.velocity_north, after.velocity_east>> ]

\* speed = max(0, loc.get('speed', 0))
ClampSpeed(speed) == IF speed > 0 THEN speed ELSE 0

\* _update_display, "GPS" with a location and a signal: the fallback and,
\* while recording, the engine take the fix
tick_fix(t, l, current_time) ==
    [t EXCEPT
       !.view = [gps_status_view(t.view, l.timestamp, current_time)
                   EXCEPT !.dr_mode = FALSE],
       !.no_signal = FALSE,
       !.dead_reckoning =
           dr_update_gps(@, l.latitude, l.longitude, ClampSpeed(l.speed),
                         l.course, l.timestamp),
       !.fusion =
           IF t.view.logging_enabled
           THEN update_gps(@, l.latitude, l.longitude, ClampSpeed(l.speed),
                           l.course, l.horizontal_accuracy, current_time)
           ELSE @,
       !.calls =
           IF t.view.logging_enabled
           THEN Append(@, CallEntry(
                    "update_gps", t.fusion,
                    update_gps(t.fusion, l.latitude, l.longitude,
                               ClampSpeed(l.speed), l.course,
                               l.horizontal_accuracy, current_time)))
           ELSE @]

\* _update_display, "GPS": l is the location dict or None
tick_gps(t, l, current_time) ==
    IF l # None /\ ~gps_no_signal(t.view, l.timestamp, current_time)
    THEN tick_fix(t, l, current_time)
    ELSE [t EXCEPT
            !.view = gps_status_view(
                         @, IF l # None THEN l.timestamp ELSE None, current_time),
            !.no_signal = TRUE]

\* an estimator the tick starts again at every tick of an outage
dr_restarted(t, current_time) ==
    start_dead_reckoning(t.dead_reckoning, current_time)

\* the estimator once the tick has started it if the outage is new
dr_started(t, current_time) ==
    IF ~t.view.dr_mode
    THEN start_dead_reckoning(t.dead_reckoning, current_time)
    ELSE t.dead_reckoning

\* the tick with the outcome r of update_with_sensors
tick_dr_done(t, r) ==
    [t EXCEPT !.view.dr_mode = TRUE,
              !.dead_reckoning = r.self,
              !.dr_result = r.result]

\* _update_display, "デッドレコニングモード"
tick_dr(t, user_accel, attitude, dt, current_time) ==
    IF t.no_signal /\ t.dead_reckoning.last_gps_lat # None
    THEN tick_dr_done(t, update_with_sensors(dr_started(t, current_time),
                                             user_accel, attitude, dt,
                                             current_time))
    ELSE t

\* the tick with the outcome r of update_ins
tick_ins_done(t, r) ==
    [t EXCEPT !.fusion = r.self,
              !.ret = r.result,
              !.calls = Append(@, CallEntry("update_ins", t.fusion, r.self))]

\* _update_display, "GPS/INS Fusion: INS更新（ログ記録中のみ）"
tick_ins(t, user_accel, attitude, dt, current_time) ==
    IF t.view.logging_enabled /\ t.fusion.is_initialized
    THEN tick_ins_done(t, update_ins(t.fusion, user_accel, attitude, dt,
                                     current_time))
    ELSE t

\* _update_display: one tick at time.time() = current_time with the
\* location l, from the view v, the estimator d and the engine f
update_display(v, d, f, l, user_accel, attitude, current_time) ==
    tick_ins(
        tick_dr(
            tick_gps([view |-> [v EXCEPT !.last_update_time = current_time],
                      dead_reckoning |-> d,
                      fusion |-> f,
                      no_signal |-> FALSE,
                      dr_result |-> None,
                      ret |-> None,
                      calls |-> <<>>],
                     l, current_time),
            user_accel, attitude, current_time - v.last_update_time, current_time),
        user_accel, attitude, current_time - v.last_update_time, current_time)

(***************************************************************************)
(* The replay: log_viewer.py, SensorLogViewer._calculate_ins_track         *)
(***************************************************************************)
\* one iteration of the loop over the records, after the first: the engine
\* after fusion.update_ins; f is the engine, t the record's timestamp and
\* dt = t - prev_time
replay_predict(f, user_accel, attitude, dt, t) ==
    viewer_update_ins(f, user_accel, attitude, dt, Some(t))

\* the engine after fusion.update_gps on the predicted engine; fix is the
\* record's gps.raw as the app logged it, its speed read from speed_clamped
\* (= max(0, speed), g_sensor_app.py "speed_clamped")
replay_correct(predicted, t, fix) ==
    viewer_update_gps(predicted, fix[1], fix[2], ClampSpeed(fix[3]), fix[4],
                      fix[5], Some(t))

\* the iteration: fix is None when the record has no gps.raw or no_signal
replay_record(f, user_accel, attitude, dt, t, fix) ==
    IF fix # None
    THEN replay_correct(replay_predict(f, user_accel, attitude, dt, t), t, fix)
    ELSE replay_predict(f, user_accel, attitude, dt, t)

\* the engine calls of that iteration, in order
replay_calls(f, predicted, corrected, fix) ==
    IF fix # None
    THEN <<CallEntry("update_ins", f, predicted),
           CallEntry("update_gps", predicted, corrected)>>
    ELSE <<CallEntry("update_ins", f, predicted)>>

(***************************************************************************)
(* Inputs and bounds                                                       *)
(***************************************************************************)
\* the longest track a behaviour builds
MaxTrack == 3
\* how often the clock advances in a behaviour
MaxAdvances == 1
\* the clock starts away from zero and advances by MEMORY_MAX_DURATION
ClockStart == 1000
ClockStep == MEMORY_MAX_DURATION

\* fixes <<latitude, longitude, speed, course, accuracy>>, at two nearby
\* positions A = (35.68000, 139.76000) and B = (35.68100, 139.76100)
Fixes ==
    { <<3568100, 13976100, 2500, 90, 0>>,    \* B, fast eastwards, perfect
      <<3568000, 13976000, 0, -1, 10>>,      \* A, at rest, course unknown, good
      <<3568100, 13976100, 2500, 90, 15>>,   \* B, fast, fair
      <<3568100, 13976100, 2500, 90, 30>>,   \* B, fast, poor
      <<3568100, 13976100, 0, -1, -1>>,      \* B, accuracy invalid
      <<9100000, 13976000, 0, -1, 0>>,       \* latitude 91 degrees
      <<3568000, 18100000, 0, -1, 0>> }      \* longitude 181 degrees

\* inertial samples <<user_accel, attitude, dt>>; user_accel is
\* <<ax, ay, az>>, attitude is <<roll, pitch, yaw>>, either may be None
Samples ==
    { <<None, None, 10>>,
      <<<<0, 500, 0>>, <<0, 0, 3130>>, 10>>,    \* accelerating, yaw near pi
      <<<<0, 0, 0>>, <<0, 0, -3130>>, 0>>,      \* at rest, yaw near -pi, dt = 0
      <<<<0, 500, 0>>, <<0, 0, -3130>>, -10>> } \* dt < 0

NoCall == [op |-> "none", args |-> <<>>]

\* two altitude estimators before their first update
NoAltitude ==
    [ self |-> altitude_reset, twin |-> altitude_reset,
      ret |-> None, twin_ret |-> None, args |-> <<>> ]

\* the tick and the replay before they have run
IdleDriver ==
    /\ loc = None
    /\ view = view_init(ClockStart)
    /\ dead_reckoning = dr_reset
    /\ dr_result = None
    /\ calls = <<>>
    /\ replay = [prev_time |-> None, first |-> None, fix |-> None]
    /\ steps = 0
    /\ altitude = NoAltitude
    /\ outage = None
    /\ last_good = None

(***************************************************************************)
(* Engine calls                                                            *)
(***************************************************************************)
Init ==
    /\ program \in {"app", "viewer", "dr"}
    /\ fusion = reset
    /\ vfusion = IF program = "viewer"
                 THEN viewer_init(3568000, 13976000)
                 ELSE None
    /\ now = ClockStart
    /\ ret = None
    /\ call = NoCall
    /\ IdleDriver

\* the outage after a fix of that accuracy is given to the engine at now:
\* a good fix (accuracy in [0, 15)) ends it, the first poor fix (accuracy
\* < 0 or >= 30) starts it
outage_after(accuracy) ==
    IF accuracy >= 0 /\ accuracy < 15 THEN None
    ELSE IF (accuracy < 0 \/ accuracy >= 30) /\ outage = None THEN Some(now)
    ELSE outage

\* the latest good fix once fix is given to the engine
last_good_after(fix) ==
    IF fix[5] >= 0 /\ fix[5] < 15 THEN Some(fix) ELSE last_good

\* time passes between two calls
Advance ==
    /\ now < ClockStart + MaxAdvances * ClockStep
    /\ now' = now + ClockStep
    /\ UNCHANGED <<program, fusion, vfusion, ret, call, driver, altitude,
                   outage, last_good>>

\* app: gps_ins_fusion.reset()
Reset ==
    /\ program = "app"
    /\ fusion' = reset
    /\ ret' = None
    /\ call' = [op |-> "reset", args |-> <<>>]
    /\ outage' = None
    /\ last_good' = None
    /\ UNCHANGED <<program, vfusion, now, driver, altitude>>

\* app: gps_ins_fusion.update_gps(lat, lon, speed, course, h_acc)
UpdateGps(fix) ==
    /\ program = "app"
    /\ fusion' = update_gps(fusion, fix[1], fix[2], fix[3], fix[4], fix[5], now)
    /\ Len(fusion'.track) <= MaxTrack
    /\ ret' = None
    /\ call' = [op |-> "update_gps", args |-> fix]
    /\ outage' = outage_after(fix[5])
    /\ last_good' = last_good_after(fix)
    /\ UNCHANGED <<program, vfusion, now, driver, altitude>>

\* app: gps_ins_fusion.update_ins(user_accel, attitude, dt)
UpdateIns(user_accel, attitude, dt) ==
    /\ program = "app"
    /\ \E r \in {update_ins(fusion, user_accel, attitude, dt, now)} :
           /\ fusion' = r.self
           /\ ret' = r.result
    /\ Len(fusion'.track) <= MaxTrack
    /\ call' = [op |-> "update_ins", args |-> <<user_accel, attitude, dt>>]
    /\ UNCHANGED <<program, vfusion, now, driver, altitude, outage, last_good>>

\* viewer: fusion.update_gps(lat, lon, speed, course, accuracy, timestamp);
\* timestamp is the record's gps.raw timestamp, None when the log has none
ViewerUpdateGps(fix, timestamp) ==
    /\ program = "viewer"
    /\ vfusion' = viewer_update_gps(vfusion, fix[1], fix[2], fix[3], fix[4],
                                    fix[5], timestamp)
    /\ Len(vfusion'.track) <= MaxTrack
    /\ call' = [op |-> "update_gps", args |-> Append(fix, timestamp)]
    /\ outage' = outage_after(fix[5])
    /\ last_good' = last_good_after(fix)
    /\ UNCHANGED <<program, fusion, now, ret, driver, altitude>>

\* viewer: fusion.update_ins(user_accel, attitude, dt, timestamp=t)
ViewerUpdateIns(user_accel, attitude, dt) ==
    /\ program = "viewer"
    /\ vfusion' = viewer_update_ins(vfusion, user_accel, attitude, dt, Some(now))
    /\ Len(vfusion'.track) <= MaxTrack
    /\ call' = [op |-> "update_ins", args |-> <<user_accel, attitude, dt>>]
    /\ UNCHANGED <<program, fusion, now, ret, driver, altitude, outage, last_good>>

\* calls of the fallback estimator in a behaviour
MaxDrCalls == 5

\* the fixes <<latitude, longitude, speed, course>> the fallback is given
DrFixes ==
    { <<3568000, 13976000, 0, -1>>,
      <<3568100, 13976100, 2500, 90>> }

\* what the calls below leave alone
DrFrame == <<program, fusion, vfusion, now, loc, view, dr_result, calls,
             replay, altitude, outage, last_good>>

\* app: dead_reckoning.update_gps(lat, lon, speed, course, timestamp)
DrUpdateGps(fix) ==
    /\ program = "dr"
    /\ steps < MaxDrCalls
    /\ steps' = steps + 1
    /\ dead_reckoning' = dr_update_gps(dead_reckoning, fix[1], fix[2], fix[3],
                                       fix[4], Some(now))
    /\ ret' = None
    /\ call' = [op |-> "update_gps", args |-> fix]
    /\ UNCHANGED DrFrame

\* app: dead_reckoning.start_dead_reckoning()
DrStart ==
    /\ program = "dr"
    /\ steps < MaxDrCalls
    /\ steps' = steps + 1
    /\ dead_reckoning' = start_dead_reckoning(dead_reckoning, now)
    /\ ret' = Some(start_result(dead_reckoning))
    /\ call' = [op |-> "start_dead_reckoning", args |-> <<>>]
    /\ UNCHANGED DrFrame

\* app: dead_reckoning.update_with_sensors(user_accel, attitude, dt)
DrUpdateWithSensors(user_accel, attitude, dt) ==
    /\ program = "dr"
    /\ steps < MaxDrCalls
    /\ steps' = steps + 1
    /\ \E r \in {update_with_sensors(dead_reckoning, user_accel, attitude, dt,
                                      now)} :
           /\ dead_reckoning' = r.self
           /\ ret' = r.result
    /\ call' = [op |-> "update_with_sensors",
                args |-> <<user_accel, attitude, dt>>]
    /\ UNCHANGED DrFrame

Next ==
    \/ Advance
    \/ Reset
    \/ \E fix \in Fixes : UpdateGps(fix)
    \/ \E s \in Samples : UpdateIns(s[1], s[2], s[3])
    \/ \E fix \in Fixes, timestamp \in {None, Some(now)} :
           ViewerUpdateGps(fix, timestamp)
    \/ \E s \in Samples : ViewerUpdateIns(s[1], s[2], s[3])
    \/ \E fix \in DrFixes : DrUpdateGps(fix)
    \/ DrStart
    \/ \E s \in Samples : DrUpdateWithSensors(s[1], s[2], s[3])

Spec == Init /\ [][Next]_vars

(***************************************************************************)
(* Ticks of the app and records of the viewer                              *)
(***************************************************************************)
\* ticks run, or records replayed, in a behaviour
MaxTicks == 3
\* seconds between two ticks or records: one second, or more than _gps_timeout
Gaps == {10, GPS_TIMEOUT + 10}

\* the fixes the location service delivers and the log holds
TickFixes ==
    { <<3568100, 13976100, 2500, 90, 0>>,
      <<3568000, 13976000, 0, -1, 10>>,
      <<3568100, 13976100, 2500, 90, 30>>,
      <<3568100, 13976100, -100, 90, 10>> }    \* speed unknown, course known

\* the inertial readings <<user_accel, attitude>> of a tick or record
TickSamples ==
    { <<None, None>>,
      <<<<0, 500, 0>>, <<0, 0, 3130>>>> }

\* location.get_location() for a fix acquired at time t
Location(fix, t) ==
    [ latitude            |-> fix[1],
      longitude           |-> fix[2],
      speed               |-> fix[3],
      course              |-> fix[4],
      horizontal_accuracy |-> fix[5],
      timestamp           |-> Some(t) ]

\* the viewer is given a log whose first fix is f0 (gps_lat[0], gps_lon[0])
InitTick ==
    /\ program \in {"app", "viewer"}
    /\ fusion = reset
    /\ now = ClockStart
    /\ ret = None
    /\ call = NoCall
    /\ loc = None
    /\ view = view_init(ClockStart)
    /\ dead_reckoning = dr_reset
    /\ dr_result = None
    /\ calls = <<>>
    /\ steps = 0
    /\ altitude = NoAltitude
    /\ outage = None
    /\ last_good = None
    /\ IF program = "viewer"
       THEN \E f0 \in TickFixes :
                /\ vfusion = viewer_init(f0[1], f0[2])
                /\ replay = [prev_time |-> None, first |-> Some(f0),
                             fix |-> None]
       ELSE /\ vfusion = None
            /\ replay = [prev_time |-> None, first |-> None, fix |-> None]

\* app: _toggle_recording; starting a recording resets the engine
ToggleRecording ==
    /\ program = "app"
    /\ view' = [view EXCEPT !.logging_enabled = ~@]
    /\ fusion' = IF view.logging_enabled THEN fusion ELSE reset
    /\ calls' = <<>>
    /\ UNCHANGED <<program, vfusion, now, ret, call, loc, dead_reckoning,
                   dr_result, replay, steps, altitude, outage, last_good>>

\* app: _update_display, gap after the previous tick, with the location l
Tick(gap, l, user_accel, attitude) ==
    /\ program = "app"
    /\ steps < MaxTicks
    /\ steps' = steps + 1
    /\ now' = now + gap
    /\ loc' = l
    /\ \E t \in {update_display(view, dead_reckoning, fusion, l, user_accel,
                                 attitude, now + gap)} :
           /\ view' = t.view
           /\ dead_reckoning' = t.dead_reckoning
           /\ fusion' = t.fusion
           /\ dr_result' = t.dr_result
           /\ ret' = t.ret
           /\ calls' = t.calls
    /\ UNCHANGED <<program, vfusion, call, replay, altitude, outage, last_good>>

\* viewer: the first record of the log only sets prev_time
ReplayFirst(gap, fix) ==
    /\ program = "viewer"
    /\ steps < MaxTicks
    /\ replay.prev_time = None
    /\ steps' = steps + 1
    /\ now' = now + gap
    /\ replay' = [prev_time |-> Some(now + gap),
                  first |-> IF fix # None THEN None ELSE replay.first,
                  fix |-> fix]
    /\ calls' = <<>>
    /\ UNCHANGED <<program, fusion, vfusion, ret, call, loc, view,
                   dead_reckoning, dr_result, altitude, outage, last_good>>

\* viewer: a later record of the log, gap after the previous one
ReplayRecord(gap, fix, user_accel, attitude) ==
    /\ program = "viewer"
    /\ steps < MaxTicks
    /\ replay.prev_time # None
    /\ steps' = steps + 1
    /\ now' = now + gap
    /\ replay' = [prev_time |-> Some(now + gap),
                  first |-> IF fix # None THEN None ELSE replay.first,
                  fix |-> fix]
    /\ vfusion' = replay_record(vfusion, user_accel, attitude,
                                now + gap - Val(replay.prev_time), now + gap, fix)
    /\ \E predicted \in {replay_predict(vfusion, user_accel, attitude,
                                         now + gap - Val(replay.prev_time),
                                         now + gap)} :
           calls' = replay_calls(vfusion, predicted, vfusion', fix)
    /\ UNCHANGED <<program, fusion, ret, call, loc, view, dead_reckoning,
                   dr_result, altitude, outage, last_good>>

\* the fixes the next record of the log may carry: the first fix of the log
\* is f0
RecordFixes ==
    IF replay.first # None THEN {None, Val(replay.first)}
    ELSE {None} \cup TickFixes

NextTick ==
    \/ ToggleRecording
    \/ \E gap \in Gaps, s \in TickSamples :
           \E l \in {None, loc} \cup {Location(fix, now + gap) : fix \in TickFixes} :
               Tick(gap, l, s[1], s[2])
    \/ \E gap \in Gaps, fix \in RecordFixes : ReplayFirst(gap, fix)
    \/ \E gap \in Gaps, fix \in RecordFixes, s \in TickSamples :
           ReplayRecord(gap, fix, s[1], s[2])

SpecTick == InitTick /\ [][NextTick]_vars

(***************************************************************************)
(* Updates of the viewer's altitude estimate                               *)
(***************************************************************************)
\* update calls in a behaviour
MaxUpdates == 3

\* what a record gives: <<gps_alt, gps_v_acc, baro_relative, dt>>
AltitudeSamples ==
    { <<None, None, None, 1>>,                       \* neither sensor
      <<None, None, Some(0), 1>>,                    \* barometer at 0 m
      <<None, None, Some(1000), 1>>,                 \* barometer at 10 m
      <<Some(0), Some(5), Some(0), 1>>,              \* altitude 0
      <<Some(10000), Some(-1), Some(0), 1>>,         \* 100 m, accuracy invalid
      <<Some(10000), Some(5), None, 1>>,             \* 100 m, 5 m, no barometer
      <<Some(11000), Some(5), Some(1000), 1>>,       \* 110 m, 5 m
      <<Some(11000), Some(15), Some(1000), 0>> }     \* 110 m, 15 m, dt = 0

\* accel_z of a record
VerticalAccelerations == {None, Some(500)}

InitAltitude ==
    /\ program = "viewer"
    /\ fusion = reset
    /\ vfusion = None
    /\ now = ClockStart
    /\ ret = None
    /\ call = NoCall
    /\ IdleDriver

\* viewer: altitude_fusion.update(gps_alt, gps_v_acc, baro_relative, accel_z,
\* dt), and the same call with another accel_z on the twin
AltitudeUpdate(sample, accel_z, twin_accel_z) ==
    /\ steps < MaxUpdates
    /\ steps' = steps + 1
    /\ \E a \in {altitude_update(altitude.self, sample[1], sample[2],
                                  sample[3], accel_z, sample[4])},
          b \in {altitude_update(altitude.twin, sample[1], sample[2],
                                  sample[3], twin_accel_z, sample[4])} :
           altitude' = [ self |-> a, twin |-> b,
                         ret |-> a.fused_altitude,
                         twin_ret |-> b.fused_altitude,
                         args |-> sample ]
    /\ UNCHANGED <<program, fusion, vfusion, now, ret, call, loc, view,
                   dead_reckoning, dr_result, calls, replay, outage, last_good>>

NextAltitude ==
    \E sample \in AltitudeSamples, accel_z, twin_accel_z \in VerticalAccelerations :
        AltitudeUpdate(sample, accel_z, twin_accel_z)

SpecAltitude == InitAltitude /\ [][NextAltitude]_vars


(***************************************************************************)
(* Yaw sequences given to the app's engine and to its fallback             *)
(***************************************************************************)
\* calls in a behaviour
MaxHeadingCalls == 6

\* yaw samples in [-pi, pi], in milliradian: -pi, -pi/2, pi/2, pi
Yaws == {-PI, -(PI \div 2), PI \div 2, PI}

\* a good fix of a moving receiver and a poor one, both at B
HeadingFixes ==
    { <<3568100, 13976100, 2500, 90, 0>>,
      <<3568100, 13976100, 2500, 90, 30>> }

InitHeading ==
    /\ program \in {"app", "dr"}
    /\ fusion = reset
    /\ vfusion = None
    /\ now = ClockStart
    /\ ret = None
    /\ call = NoCall
    /\ IdleDriver

HeadingFrame == <<program, vfusion, now, loc, view, dr_result, calls, replay,
                  altitude>>

\* app: gps_ins_fusion.update_gps(lat, lon, speed, course, h_acc)
HeadingUpdateGps(fix) ==
    /\ program = "app"
    /\ steps < MaxHeadingCalls
    /\ steps' = steps + 1
    /\ fusion' = update_gps(fusion, fix[1], fix[2], fix[3], fix[4], fix[5], now)
    /\ ret' = None
    /\ call' = [op |-> "update_gps", args |-> fix]
    /\ outage' = outage_after(fix[5])
    /\ last_good' = last_good_after(fix)
    /\ UNCHANGED <<HeadingFrame, dead_reckoning>>

\* app: gps_ins_fusion.update_ins(None, (0, 0, yaw), 1.0)
HeadingUpdateIns(yaw) ==
    /\ program = "app"
    /\ steps < MaxHeadingCalls
    /\ steps' = steps + 1
    /\ \E r \in {update_ins(fusion, None, <<0, 0, yaw>>, 10, now)} :
           /\ fusion' = r.self
           /\ ret' = r.result
    /\ call' = [op |-> "update_ins", args |-> <<None, <<0, 0, yaw>>, 10>>]
    /\ UNCHANGED <<HeadingFrame, dead_reckoning, outage, last_good>>

\* app: dead_reckoning.update_gps(lat, lon, speed, course, timestamp)
HeadingDrUpdateGps(fix) ==
    /\ program = "dr"
    /\ steps < MaxHeadingCalls
    /\ steps' = steps + 1
    /\ dead_reckoning' = dr_update_gps(dead_reckoning, fix[1], fix[2], fix[3],
                                       fix[4], Some(now))
    /\ ret' = None
    /\ call' = [op |-> "update_gps", args |-> fix]
    /\ UNCHANGED <<HeadingFrame, fusion, outage, last_good>>

\* app: dead_reckoning.start_dead_reckoning()
HeadingDrStart ==
    /\ program = "dr"
    /\ steps < MaxHeadingCalls
    /\ steps' = steps + 1
    /\ dead_reckoning' = start_dead_reckoning(dead_reckoning, now)
    /\ ret' = Some(start_result(dead_reckoning))
    /\ call' = [op |-> "start_dead_reckoning", args |-> <<>>]
    /\ UNCHANGED <<HeadingFrame, fusion, outage, last_good>>

\* app: dead_reckoning.update_with_sensors(None, (0, 0, yaw), 1.0)
HeadingDrUpdateWithSensors(yaw) ==
    /\ program = "dr"
    /\ steps < MaxHeadingCalls
    /\ steps' = steps + 1
    /\ \E r \in {update_with_sensors(dead_reckoning, None, <<0, 0, yaw>>, 10,
                                      now)} :
           /\ dead_reckoning' = r.self
           /\ ret' = r.result
    /\ call' = [op |-> "update_with_sensors",
                args |-> <<None, <<0, 0, yaw>>, 10>>]
    /\ UNCHANGED <<HeadingFrame, fusion, outage, last_good>>

NextHeading ==
    \/ \E fix \in HeadingFixes : HeadingUpdateGps(fix)
    \/ \E yaw \in Yaws : HeadingUpdateIns(yaw)
    \/ \E fix \in {<<3568100, 13976100, 2500, 90>>} : HeadingDrUpdateGps(fix)
    \/ HeadingDrStart
    \/ \E yaw \in Yaws : HeadingDrUpdateWithSensors(yaw)

SpecHeading == InitHeading /\ [][NextHeading]_vars


(***************************************************************************)
(* An outage with the clock standing still: the remembered velocity fades  *)
(***************************************************************************)
\* fixes and inertial update_ins calls in a behaviour; the update_ins calls
\* that extrapolate from memory are not counted
MaxMemoryCalls == 4

\* a good fix of a receiver moving at 0.33 m/s at B, a fair fix at A and a
\* poor fix at B
MemoryFixes ==
    { <<3568100, 13976100, 33, 90, 0>>,
      <<3568000, 13976000, 33, 90, 15>>,
      <<3568100, 13976100, 33, 90, 30>> }

\* inertial samples with dt = 1.0, dt = 5.0 and dt = 0
MemorySamples ==
    { <<None, None, 10>>,
      <<<<0, 500, 0>>, <<0, 0, 3130>>, 50>>,
      <<None, None, 0>> }

\* the next update_ins would extrapolate from memory
UsesMemoryTrack ==
    \/ /\ program = "app"
       /\ fusion.is_initialized /\ fusion.current_lat # None
       /\ use_memory_track(fusion, now)
    \/ /\ program = "viewer"
       /\ viewer_use_memory_track(vfusion, Some(now))

InitMemory ==
    /\ program \in {"app", "viewer"}
    /\ fusion = reset
    /\ vfusion = IF program = "viewer"
                 THEN viewer_init(3568000, 13976000)
                 ELSE None
    /\ now = ClockStart
    /\ ret = None
    /\ call = NoCall
    /\ IdleDriver

MemoryFrame == <<program, now, loc, view, dead_reckoning, dr_result, calls,
                 replay, altitude>>

\* update_gps(lat, lon, speed, course, accuracy) of either engine
MemoryUpdateGps(fix) ==
    /\ steps < MaxMemoryCalls
    /\ steps' = steps + 1
    /\ IF program = "app"
       THEN /\ fusion' = update_gps(fusion, fix[1], fix[2], fix[3], fix[4],
                                    fix[5], now)
            /\ UNCHANGED vfusion
       ELSE /\ vfusion' = viewer_update_gps(vfusion, fix[1], fix[2], fix[3],
                                            fix[4], fix[5], Some(now))
            /\ UNCHANGED fusion
    /\ ret' = None
    /\ call' = [op |-> "update_gps", args |-> fix]
    /\ outage' = outage_after(fix[5])
    /\ last_good' = last_good_after(fix)
    /\ UNCHANGED MemoryFrame

\* update_ins(user_accel, attitude, dt) of either engine
MemoryUpdateIns(user_accel, attitude, dt) ==
    /\ UsesMemoryTrack \/ steps < MaxMemoryCalls
    /\ steps' = IF UsesMemoryTrack THEN steps ELSE steps + 1
    /\ IF program = "app"
       THEN /\ \E r \in {update_ins(fusion, user_accel, attitude, dt, now)} :
                   /\ fusion' = r.self
                   /\ ret' = r.result
            /\ UNCHANGED vfusion
       ELSE /\ vfusion' = viewer_update_ins(vfusion, user_accel, attitude, dt,
                                            Some(now))
            /\ ret' = None
            /\ UNCHANGED fusion
    /\ call' = [op |-> "update_ins", args |-> <<user_accel, attitude, dt>>]
    /\ UNCHANGED <<MemoryFrame, outage, last_good>>

\* the update_ins calls with dt > 0; the tick and the replay keep making them
MemoryPrediction ==
    \E s \in {m \in MemorySamples : m[3] > 0} : MemoryUpdateIns(s[1], s[2], s[3])

NextMemory ==
    \/ \E fix \in MemoryFixes : MemoryUpdateGps(fix)
    \/ \E s \in MemorySamples : MemoryUpdateIns(s[1], s[2], s[3])

\* MemoryPrediction can be taken: ENABLED <<MemoryPrediction>>_vars
PredictionEnabled == UsesMemoryTrack \/ steps < MaxMemoryCalls

\* weak fairness of MemoryPrediction, that is WF_vars(MemoryPrediction) with
\* its enabling condition written out
MemoryFairness ==
    []<>(~PredictionEnabled) \/ []<><<MemoryPrediction>>_vars

SpecMemory == InitMemory /\ [][NextMemory]_vars /\ MemoryFairness

(***************************************************************************)
(* Properties                                                              *)
(***************************************************************************)
\* the step is a call of that name on a fusion engine (the clock stands
\* still in one)
GpsCall == program # "dr" /\ now' = now /\ call'.op = "update_gps"
InsCall == now' = now /\ call'.op = "update_ins"
ResetCall == now' = now /\ call'.op = "reset"

\* the arguments of the latest call
FixAccuracy(c) == c.args[5]
SampleDt(c) == c.args[3]

PoorAccuracy(accuracy) == accuracy < 0 \/ accuracy >= 30
GoodAccuracy(accuracy) == accuracy >= 0 /\ accuracy < 15
OutOfRange(lat, lon) ==
    lat < -9000000 \/ lat > 9000000 \/ lon < -18000000 \/ lon > 18000000

IsPrefix(s, t) == Len(s) <= Len(t) /\ SubSeq(t, 1, Len(s)) = s
Last(s) == s[Len(s)]

\* the engine e is in memory mode and MEMORY_MAX_DURATION has passed since
Expired(e) ==
    /\ e.is_memory_mode
    /\ e.memory_mode_start_time # None
    /\ now - Val(e.memory_mode_start_time) >= 600

\* C1: a tick or replayed record that both feeds a fix and predicts calls
\* update_gps before update_ins
C1_FixBeforePrediction ==
    \A i, j \in DOMAIN calls :
        calls[i].op = "update_gps" /\ calls[j].op = "update_ins" => i < j

\* nothing but the memory-mode flag and its entry time differs
OnlyMemoryEntryChanged(old, new) ==
    new = [old EXCEPT !.is_memory_mode = new.is_memory_mode,
                      !.memory_mode_start_time = new.memory_mode_start_time]

\* C2: update_gps with a poor fix (accuracy < 0 or >= 30) on an initialized
\* engine changes nothing but the memory-mode flag and its entry time
C2_PoorFixKeepsEstimate ==
    [][ GpsCall /\ PoorAccuracy(FixAccuracy(call')) =>
          /\ program = "app" /\ fusion.is_initialized
                => OnlyMemoryEntryChanged(fusion, fusion')
          /\ program = "viewer"
                => OnlyMemoryEntryChanged(vfusion, vfusion') ]_vars

\* a negative accuracy on a moving, initialized engine entered memory mode
\* and left the two-entry track alone
C2_Witness ==
    /\ program = "app"
    /\ call.op = "update_gps"
    /\ FixAccuracy(call) < 0
    /\ fusion.is_memory_mode
    /\ fusion.memory_mode_start_time = Some(now)
    /\ Len(fusion.track) = 2

\* the flag changes of one engine over a step
FlagSetProperly(old, new) ==
    ~old.is_memory_mode /\ new.is_memory_mode =>
        /\ GpsCall
        /\ PoorAccuracy(FixAccuracy(call'))
        /\ old.memory_speed > 30
FlagClearedProperly(old, new) ==
    old.is_memory_mode /\ ~new.is_memory_mode =>
        \/ GpsCall /\ GoodAccuracy(FixAccuracy(call'))
        \/ ResetCall
FlagKeptByIns(old, new) ==
    InsCall => new.is_memory_mode = old.is_memory_mode

\* C3: the memory-mode flag is set only by update_gps with a poor fix while
\* the remembered speed exceeds 0.3 m/s, cleared only by update_gps with
\* accuracy in [0, 15) or by reset, and never changed by update_ins
C3_MemoryFlagTransitions ==
    [][ /\ program = "app" =>
              /\ FlagSetProperly(fusion, fusion')
              /\ FlagClearedProperly(fusion, fusion')
              /\ FlagKeptByIns(fusion, fusion')
        /\ program = "viewer" =>
              /\ FlagSetProperly(vfusion, vfusion')
              /\ FlagClearedProperly(vfusion, vfusion')
              /\ FlagKeptByIns(vfusion, vfusion') ]_vars

\* the flag was set and an update_ins has run since, leaving it set
C3_Witness ==
    /\ call.op = "update_ins"
    /\ IF program = "app" THEN fusion.is_memory_mode
                          ELSE vfusion.is_memory_mode

\* C4: in memory mode, an update_ins 60 s or more after the entry time
\* never extrapolates from memory: the app returns mode 'ins', the viewer
\* appends an entry tagged 'ins' (for dt <= 0 it appends nothing); the flag
\* stays set
C4_MemoryExpires ==
    [][ InsCall =>
          /\ program = "app" /\ Expired(fusion) =>
                /\ ret' # None
                /\ Val(ret').mode = "ins"
                /\ fusion'.is_memory_mode
          /\ program = "viewer" /\ Expired(vfusion) =>
                /\ vfusion'.is_memory_mode
                /\ IF SampleDt(call') > 0
                   THEN /\ Len(vfusion'.track) = Len(vfusion.track) + 1
                        /\ Last(vfusion'.track)[3] = "ins"
                   ELSE vfusion'.track = vfusion.track ]_vars

\* 60 s after entering memory mode at a remembered speed above the motion
\* threshold, update_ins returned mode 'ins'
C4_Witness ==
    /\ program = "app"
    /\ call.op = "update_ins"
    /\ Expired(fusion)
    /\ fusion.memory_speed > 30
    /\ ret # None
    /\ Val(ret).mode = "ins"

\* C5: update_ins with dt <= 0 changes nothing in either engine
C5_NonPositiveDtIsNoOp ==
    [][ InsCall /\ SampleDt(call') <= 0 =>
          fusion' = fusion /\ vfusion' = vfusion ]_vars

\* C6: update_ins on an engine no fix has initialized returns None and
\* changes nothing
C6_UninitializedInsIsNoOp ==
    [][ InsCall /\ program = "app" /\ ~fusion.is_initialized =>
          fusion' = fusion /\ ret' = None ]_vars

\* update_ins has run on an uninitialized engine
C6_Witness ==
    /\ program = "app"
    /\ call.op = "update_ins"
    /\ ~fusion.is_initialized
    /\ fusion.track = <<>>
    /\ ret = None

\* C7: update_gps with a latitude outside [-90, 90] or a longitude outside
\* [-180, 180] leaves position, initialization flag and track unchanged
C7_OutOfRangeFixRejected ==
    [][ GpsCall /\ OutOfRange(call'.args[1], call'.args[2]) =>
          /\ program = "app" =>
                /\ fusion'.current_lat = fusion.current_lat
                /\ fusion'.current_lon = fusion.current_lon
                /\ fusion'.is_initialized = fusion.is_initialized
                /\ fusion'.track = fusion.track
          /\ program = "viewer" =>
                /\ vfusion'.current_lat = vfusion.current_lat
                /\ vfusion'.current_lon = vfusion.current_lon
                /\ vfusion'.track = vfusion.track ]_vars

\* C8: update_gps with a negative accuracy leaves an uninitialized engine
\* uninitialized
C8_InvalidFixDoesNotInitialize ==
    [][ GpsCall /\ program = "app" /\ ~fusion.is_initialized
             /\ FixAccuracy(call') < 0 =>
          ~fusion'.is_initialized ]_vars

\* how many entries the step appended to the track of one engine
Appended(old, new) == Len(new.track) - Len(old.track)

\* C9 as stated: every update_gps and update_ins on an initialized engine
\* appends exactly one entry
C9_EveryCallAppendsOne ==
    [][ GpsCall \/ InsCall =>
          /\ program = "app" /\ fusion.is_initialized
                => Appended(fusion, fusion') = 1
          /\ program = "viewer" => Appended(vfusion, vfusion') = 1 ]_vars

\* C9: on an initialized engine update_gps appends exactly one entry for
\* an accuracy in [0, 30) and none for a poor fix; update_ins appends exactly
\* one entry, except in the viewer for dt <= 0, where it appends none
C9_AppendsPerCall ==
    [][ /\ GpsCall =>
              /\ program = "app" /\ fusion.is_initialized =>
                    Appended(fusion, fusion') =
                        IF PoorAccuracy(FixAccuracy(call')) THEN 0 ELSE 1
              /\ program = "viewer" =>
                    Appended(vfusion, vfusion') =
                        IF PoorAccuracy(FixAccuracy(call')) THEN 0 ELSE 1
        /\ InsCall =>
              /\ program = "app" /\ fusion.is_initialized =>
                    Appended(fusion, fusion') = 1
              /\ program = "viewer" =>
                    Appended(vfusion, vfusion') =
                        IF SampleDt(call') <= 0 THEN 0 ELSE 1 ]_vars

\* a poor fix with accuracy >= 30 on an initialized engine with two entries
C9_Witness ==
    /\ program = "app"
    /\ call.op = "update_gps"
    /\ FixAccuracy(call) >= 30
    /\ fusion.is_initialized
    /\ Len(fusion.track) = 2

\* C10: every step but reset leaves the previous track a prefix of the
\* new one
C10_TrackAppendOnly ==
    [][ ~ResetCall =>
          /\ program = "app" => IsPrefix(fusion.track, fusion'.track)
          /\ program = "viewer" => IsPrefix(vfusion.track, vfusion'.track) ]_vars

\* a track of three entries whose last came from update_ins
C10_Witness ==
    /\ program = "app"
    /\ call.op = "update_ins"
    /\ Len(fusion.track) = 3
    /\ fusion.track[3] # fusion.track[2]

\* both uncertainties of the engine new are at least those of old
UncertaintyNotLower(old, new) ==
    /\ new.position_uncertainty >= old.position_uncertainty
    /\ new.velocity_uncertainty >= old.velocity_uncertainty

\* C11: update_ins with dt > 0 on an initialized engine, in the memory and
\* in the inertial branch, lowers neither position nor velocity uncertainty
C11_PredictionKeepsUncertainty ==
    [][ InsCall /\ SampleDt(call') > 0 =>
          /\ program = "app" /\ fusion.is_initialized
                => UncertaintyNotLower(fusion, fusion')
          /\ program = "viewer"
                => UncertaintyNotLower(vfusion, vfusion') ]_vars

\* a memory-track update_ins with dt > 0 has raised the position
\* uncertainty above its value after the last fix
C11_Witness ==
    /\ program = "app"
    /\ call.op = "update_ins"
    /\ SampleDt(call) > 0
    /\ ret # None
    /\ Val(ret).mode = "memory_track"
    /\ fusion.position_uncertainty = 510

UsableAccuracy(accuracy) == accuracy >= 0 /\ accuracy < 30
Largest(a, b) == IF a >= b THEN a ELSE b

\* C12: update_gps with a usable fix (0 <= accuracy < 30) leaves the position
\* uncertainty at most max(old uncertainty, accuracy)
C12_FixBoundsUncertainty ==
    [][ GpsCall /\ UsableAccuracy(FixAccuracy(call')) =>
          /\ program = "app" =>
                fusion'.position_uncertainty <=
                    Largest(fusion.position_uncertainty, 100 * FixAccuracy(call'))
          /\ program = "viewer" =>
                vfusion'.position_uncertainty <=
                    Largest(vfusion.position_uncertainty, 100 * FixAccuracy(call')) ]_vars

\* a fix of accuracy 15 m has raised the position uncertainty of an engine
\* that a perfect fix had brought to 5 m
C12_Witness ==
    /\ program = "app"
    /\ call.op = "update_gps"
    /\ FixAccuracy(call) = 15
    /\ fusion.position_uncertainty = 1000
    /\ Len(fusion.track) = 3

\* new is (1 - w) * old + w * fix for w = 10 / (10 + accuracy), to the
\* nearest unit
Blended(old, new, fix, accuracy) ==
    2 * Abs((10 + accuracy) * new - accuracy * old - 10 * fix) <= 10 + accuracy
Between(old, new, fix) ==
    \/ old <= new /\ new <= fix
    \/ fix <= new /\ new <= old

\* the coordinate new results from the coordinate old by a fix as C13 says
BlendedCoordinate(old, new, fix, accuracy) ==
    /\ Blended(old, new, fix, accuracy)
    /\ Between(old, new, fix)
    /\ accuracy = 0 => new = fix

\* C13: update_gps with a usable fix on an initialized engine sets each
\* coordinate to (1 - w) * old + w * fix with w = 1 / (1 + accuracy / 10):
\* exactly the fix for accuracy 0, between old and fix otherwise
C13_PositionBlend ==
    [][ GpsCall /\ UsableAccuracy(FixAccuracy(call')) =>
          /\ program = "app" /\ fusion.is_initialized =>
                /\ BlendedCoordinate(Val(fusion.current_lat), Val(fusion'.current_lat),
                                     call'.args[1], FixAccuracy(call'))
                /\ BlendedCoordinate(Val(fusion.current_lon), Val(fusion'.current_lon),
                                     call'.args[2], FixAccuracy(call'))
          /\ program = "viewer" =>
                /\ BlendedCoordinate(vfusion.current_lat, vfusion'.current_lat,
                                     call'.args[1], FixAccuracy(call'))
                /\ BlendedCoordinate(vfusion.current_lon, vfusion'.current_lon,
                                     call'.args[2], FixAccuracy(call')) ]_vars

\* an engine at A took a fix at B of accuracy 15 m and lies 40 % of the
\* way from A to B
C13_Witness ==
    /\ program = "app"
    /\ call.op = "update_gps"
    /\ FixAccuracy(call) = 15
    /\ Val(fusion.current_lat) = 3568040
    /\ Val(fusion.current_lon) = 13976040

\* the fix the latest tick or record handed to the engine, as the location
\* service reported it: <<speed, course>>
ReportedFix ==
    IF program = "app" THEN <<loc.speed, loc.course>>
    ELSE <<replay.fix[3], replay.fix[4]>>

\* C14: an update_gps whose fix has an unknown (negative) speed or an
\* unknown (negative) course leaves the engine's velocity as it was, in the
\* live tick and in the replay
C14_UnknownSpeedKeepsVelocity ==
    \A i \in DOMAIN calls :
        /\ calls[i].op = "update_gps"
        /\ ReportedFix[1] < 0 \/ ReportedFix[2] < 0
        => calls[i].after = calls[i].before

\* the step is an AltitudeFusion.update call on an estimator that is not
\* anchored yet, or on one that is
UpdateUnanchored == steps' = steps + 1 /\ altitude.self.gps_altitude = None
UpdateAnchored == steps' = steps + 1 /\ altitude.self.gps_altitude # None

\* the estimator e is anchored at the altitude and the barometric reading
\* (0 without one) of the call args
AnchoredAt(e, args) ==
    /\ e.gps_altitude = args[1]
    /\ e.baro_reference = IF args[3] # None THEN args[3] ELSE Some(0)

\* C15 as stated: before anchoring, update returns None unless the call
\* supplies a satellite altitude, and then anchors to it and returns it,
\* whatever its value
C15_AnchorsAtAnyAltitude ==
    [][ UpdateUnanchored =>
          IF altitude'.args[1] # None
          THEN /\ altitude'.ret = altitude'.args[1]
               /\ AnchoredAt(altitude'.self, altitude'.args)
          ELSE /\ altitude'.ret = None
               /\ altitude'.self = altitude.self ]_vars

\* C15: before anchoring, update returns None and changes nothing unless
\* the call supplies a satellite altitude other than 0; that call anchors
\* both references and returns the altitude
C15_AnchorsAtFirstAltitude ==
    [][ UpdateUnanchored =>
          IF altitude'.args[1] # None /\ altitude'.args[1] # Some(0)
          THEN /\ altitude'.ret = altitude'.args[1]
               /\ AnchoredAt(altitude'.self, altitude'.args)
          ELSE /\ altitude'.ret = None
               /\ altitude'.self = altitude.self ]_vars

\* two calls have been made, the latest with altitude 0, and the estimator
\* is not anchored
C15_Witness ==
    /\ steps = 2
    /\ altitude.args[1] = Some(0)
    /\ altitude.self.gps_altitude = None
    /\ altitude.ret = None

\* C16: on an anchored estimator an update with a barometric sample returns
\* the satellite anchor plus the barometric rise since the anchor
C16_FusedFollowsBarometer ==
    [][ UpdateAnchored /\ altitude'.args[3] # None =>
          altitude'.ret =
              Some(Val(altitude.self.gps_altitude)
                   + Val(altitude'.args[3]) - Val(altitude.self.baro_reference)) ]_vars

\* anchored at 100 m with the barometer at 0 m, a barometric reading of
\* 10 m and no satellite altitude returned 110 m
C16_Witness ==
    /\ altitude.args = <<None, None, Some(1000), 1>>
    /\ altitude.self.gps_altitude = Some(10000)
    /\ altitude.self.baro_reference = Some(0)
    /\ altitude.ret = Some(11000)

\* 0.7 * old + 0.3 * new
Nudged(old, new) == RDiv(7 * old + 3 * new, 10)

\* C17: on an anchored estimator an update with vertical accuracy in
\* (0, 15) moves both anchors to 0.7 * old + 0.3 * new reading; any other
\* update leaves both anchors alone
C17_BothAnchorsNudged ==
    [][ UpdateAnchored =>
          IF /\ altitude'.args[1] # None
             /\ altitude'.args[2] # None
             /\ Val(altitude'.args[2]) > 0
             /\ Val(altitude'.args[2]) < 15
          THEN /\ Val(altitude'.self.gps_altitude) =
                      Nudged(Val(altitude.self.gps_altitude), Val(altitude'.args[1]))
               /\ altitude'.args[3] # None =>
                      Val(altitude'.self.baro_reference) =
                          Nudged(Val(altitude.self.baro_reference),
                                 Val(altitude'.args[3]))
          ELSE /\ altitude'.self.gps_altitude = altitude.self.gps_altitude
               /\ altitude'.self.baro_reference = altitude.self.baro_reference ]_vars

\* C18: two estimators fed the same satellite altitude, vertical accuracy,
\* barometric reading and dt but different accel_z agree on both anchors,
\* on the fused altitude and on what update returns
C18_AccelerationHasNoInfluence ==
    /\ altitude.self.gps_altitude = altitude.twin.gps_altitude
    /\ altitude.self.baro_reference = altitude.twin.baro_reference
    /\ altitude.self.fused_altitude = altitude.twin.fused_altitude
    /\ altitude.ret = altitude.twin_ret

\* the two estimators are anchored, have returned an altitude and differ
\* in their vertical velocity
C18_Witness ==
    /\ altitude.ret # None
    /\ altitude.self.vertical_velocity # altitude.twin.vertical_velocity
    /\ altitude.self.gps_altitude # altitude.self.fused_altitude

\* the step is a call of the fallback estimator
DrGpsCall == program = "dr" /\ steps' = steps + 1 /\ call'.op = "update_gps"
DrStartCall ==
    program = "dr" /\ steps' = steps + 1 /\ call'.op = "start_dead_reckoning"
DrSensorsCall ==
    program = "dr" /\ steps' = steps + 1 /\ call'.op = "update_with_sensors"

\* position, velocity and heading of the estimator
DrEstimate(d) ==
    <<d.current_lat, d.current_lon, d.velocity_north, d.velocity_east,
      d.current_heading>>

\* the estimator d sits at the fix with the velocity of its speed and
\* course, inactive
DrSnapshot(d, fix) ==
    /\ d.current_lat = Some(fix[1])
    /\ d.current_lon = Some(fix[2])
    /\ d.last_gps_lat = Some(fix[1])
    /\ d.last_gps_lon = Some(fix[2])
    /\ d.velocity_north = RDiv(fix[3] * Cos(Radians(fix[4])), 1000)
    /\ d.velocity_east = RDiv(fix[3] * Sin(Radians(fix[4])), 1000)
    /\ ~d.is_active

\* C19: update_gps puts the estimator at the fix with the velocity of its
\* speed and course and deactivates it; start_dead_reckoning activates it
\* only if a snapshot exists and otherwise returns False and changes
\* nothing; nothing else activates it; update_with_sensors on an inactive
\* estimator returns None and leaves position, velocity and heading alone
C19_DeadReckoningLifecycle ==
    [][ /\ DrGpsCall => DrSnapshot(dead_reckoning', call'.args)
        /\ DrStartCall =>
              IF dead_reckoning.last_gps_lat = None
              THEN ret' = Some(FALSE) /\ dead_reckoning' = dead_reckoning
              ELSE ret' = Some(TRUE) /\ dead_reckoning'.is_active
        /\ ~dead_reckoning.is_active /\ dead_reckoning'.is_active =>
              DrStartCall /\ dead_reckoning.last_gps_lat # None
        /\ DrSensorsCall /\ ~dead_reckoning.is_active =>
              /\ ret' = None
              /\ DrEstimate(dead_reckoning') = DrEstimate(dead_reckoning)
        /\ DrEstimate(dead_reckoning') # DrEstimate(dead_reckoning) =>
              DrGpsCall \/ (DrSensorsCall /\ dead_reckoning.is_active) ]_vars

\* a fix has deactivated an estimator that had extrapolated with an
\* attitude sample
C19_Witness ==
    /\ program = "dr"
    /\ call.op = "update_gps"
    /\ ~dead_reckoning.is_active
    /\ dead_reckoning.last_yaw # None
    /\ dead_reckoning.dr_start_time = None

\* the yaw of the sample of the call c, when it has an attitude
SampleYaw(c) == c.args[2][3]

\* the step is an update_ins of the app's engine or an update_with_sensors
\* of an active fallback, with yaw -3.13 after yaw 3.13
WrapAroundIns ==
    /\ InsCall /\ program = "app"
    /\ fusion.is_initialized
    /\ fusion.last_yaw = Some(3130)
    /\ call'.args[2] # None /\ SampleYaw(call') = -3130
WrapAroundDr ==
    /\ DrSensorsCall
    /\ dead_reckoning.is_active /\ dead_reckoning.current_lat # None
    /\ dead_reckoning.last_yaw = Some(3130)
    /\ call'.args[2] # None /\ SampleYaw(call') = -3130

\* what the step adds to the heading it turns (current_heading, or
\* memory_heading in memory mode), in milliradian
EngineTurn ==
    (fusion'.current_heading - fusion.current_heading)
    + (fusion'.memory_heading - fusion.memory_heading)
DrTurn == dead_reckoning'.current_heading - dead_reckoning.current_heading

\* C20 as stated: yaw 3.13 then -3.13 turns the heading by about -0.02 rad
C20_WrapIsNegative ==
    [][ /\ WrapAroundIns => EngineTurn >= -30 /\ EngineTurn <= -10
        /\ WrapAroundDr => DrTurn >= -30 /\ DrTurn <= -10 ]_vars

\* C20: yaw 3.13 then -3.13 turns the heading by about +0.023 rad
\* (-6.26 + 2 pi), not by 6.26 rad
C20_WrapIsSmallPositive ==
    [][ /\ WrapAroundIns => EngineTurn >= 20 /\ EngineTurn <= 26
        /\ WrapAroundDr =>
              /\ DrTurn >= 20 /\ DrTurn <= 26
              /\ Val(ret').delta_yaw = DrTurn ]_vars

\* the fallback has integrated yaw -3.13 after yaw 3.13
C20_Witness ==
    /\ program = "dr"
    /\ call.op = "update_with_sensors"
    /\ ret # None
    /\ Val(ret).delta_yaw > 0
    /\ dead_reckoning.last_yaw = Some(-3130)

\* the step integrates the difference of two consecutive yaw samples: an
\* update_ins of an initialized engine or an update_with_sensors of an
\* active fallback, with an attitude and a previous yaw
YawIntegratedByIns ==
    /\ program = "app" /\ InsCall
    /\ fusion.is_initialized
    /\ fusion.last_yaw # None
    /\ call'.args[2] # None
YawIntegratedByDr ==
    /\ program = "dr" /\ steps' = steps + 1
    /\ call'.op = "update_with_sensors"
    /\ dead_reckoning.is_active /\ dead_reckoning.current_lat # None
    /\ dead_reckoning.last_yaw # None
    /\ call'.args[2] # None

\* the integrated difference d of the raw difference raw lies in (-pi, pi]
\* and is raw up to a whole turn
WrappedHalfOpen(d, raw) ==
    /\ d > -PI /\ d <= PI
    /\ d - raw \in {-TWO_PI, 0, TWO_PI}
    /\ raw = -PI => d = PI

\* C21: the yaw difference integrated into the heading lies in (-pi, pi],
\* differs from the raw difference by a multiple of 2 pi, and a raw
\* difference of exactly -pi is integrated as +pi
C21_WrappedIntoHalfOpenInterval ==
    [][ /\ YawIntegratedByIns =>
              WrappedHalfOpen(EngineTurn, SampleYaw(call') - Val(fusion.last_yaw))
        /\ YawIntegratedByDr =>
              WrappedHalfOpen(DrTurn,
                              SampleYaw(call') - Val(dead_reckoning.last_yaw)) ]_vars

\* the engine e is as __init__ leaves it
FreshEngine(e) ==
    /\ ~e.is_initialized
    /\ e.current_lat = None /\ e.current_lon = None
    /\ e.track = <<>>
    /\ e.velocity_north = 0 /\ e.velocity_east = 0
    /\ e.current_heading = 0
    /\ e.position_uncertainty = 1000 /\ e.velocity_uncertainty = 1000
    /\ ~e.is_memory_mode /\ e.memory_mode_start_time = None
    /\ e.memory_speed = 0 /\ e.memory_heading = 0
    /\ e.memory_velocity_north = 0 /\ e.memory_velocity_east = 0
    /\ e.last_good_gps_time = None
    /\ e.last_yaw = None

\* C22: reset leaves the engine as freshly constructed, whatever it was;
\* a reset of a fresh engine changes nothing; on a fresh engine update_ins
\* returns None and changes nothing, and update_gps starts a track whose
\* only entry is the fix
C22_ResetStartsAfresh ==
    [][ program = "app" =>
          /\ ResetCall => FreshEngine(fusion')
          /\ ResetCall /\ FreshEngine(fusion) => fusion' = fusion
          /\ InsCall /\ FreshEngine(fusion) => fusion' = fusion /\ ret' = None
          /\ GpsCall /\ FreshEngine(fusion) =>
                /\ fusion'.is_initialized
                /\ fusion'.track = << <<call'.args[1], call'.args[2]>> >>
                /\ fusion'.current_lat = Some(call'.args[1])
                /\ fusion'.current_lon = Some(call'.args[2]) ]_vars

\* a reset has returned the engine to its fresh state after time has passed
C22_Witness ==
    /\ program = "app"
    /\ call.op = "reset"
    /\ FreshEngine(fusion)
    /\ now > ClockStart

\* the velocity pair of an engine
VelocityOf(e) == <<e.velocity_north, e.velocity_east>>

\* v points the way u does, up to the rounding of its two components
SameDirection(u, v) ==
    /\ 2 * Abs(u[1] * v[2] - u[2] * v[1]) <= Abs(u[1]) + Abs(u[2])
    /\ u[1] * v[1] + u[2] * v[2] >= 0

\* the step is an update_ins that extrapolates inertially
InertialIns ==
    /\ program = "app" /\ InsCall
    /\ ret' # None /\ Val(ret').mode = "ins"
ViewerInertialIns ==
    /\ program = "viewer" /\ InsCall
    /\ Len(vfusion'.track) = Len(vfusion.track) + 1
    /\ Last(vfusion'.track)[3] = "ins"

\* C23: after an update_ins that extrapolates inertially the engine's speed
\* is at most 10 m/s, and its velocity points the way the velocity before
\* the limit did
C23_SpeedLimited ==
    [][ /\ InertialIns =>
              /\ SpeedOf(VelocityOf(fusion')) <= 1000
              /\ SameDirection(
                     decayed_velocity(fusion, call'.args[1], call'.args[2],
                                      call'.args[3]),
                     VelocityOf(fusion'))
        /\ ViewerInertialIns =>
              /\ SpeedOf(VelocityOf(vfusion')) <= 1000
              /\ SameDirection(
                     decay(viewer_integrate_accel(vfusion, call'.args[1],
                                                  call'.args[2], call'.args[3])),
                     VelocityOf(vfusion')) ]_vars

\* an inertial update_ins has brought a velocity a fix had blended beyond
\* 10 m/s down to the limit
C23_Witness ==
    /\ program = "app"
    /\ call.op = "update_ins"
    /\ ret # None /\ Val(ret).mode = "ins"
    /\ Val(ret).speed > 1000
    /\ SpeedOf(VelocityOf(fusion)) = 1000

\* the step is an update_ins that extrapolates from memory
MemoryIns == InsCall /\ UsesMemoryTrack /\ (program = "viewer" => SampleDt(call') > 0)

\* new is 0.98 old, to the nearest unit
Faded(old, new) == Abs(100 * new - 98 * old) <= 50

\* the remembered speed and velocity of the engine in use
Remembered(f, v) ==
    IF program = "app"
    THEN <<f.memory_speed, f.memory_velocity_north, f.memory_velocity_east>>
    ELSE <<v.memory_speed, v.memory_velocity_north, v.memory_velocity_east>>

\* C24: an update_ins that extrapolates from memory multiplies the remembered
\* speed and velocity components by 0.98; with the clock standing still an
\* engine that extrapolates from memory stops doing so after finitely many
\* update_ins calls, and update_ins calls never make it start again
C24_MemoryFades ==
    /\ [][ MemoryIns =>
             \A i \in 1..3 : Faded(Remembered(fusion, vfusion)[i],
                                   Remembered(fusion', vfusion')[i]) ]_vars
    /\ [][ InsCall /\ ~UsesMemoryTrack => ~UsesMemoryTrack' ]_vars
    /\ (UsesMemoryTrack ~> ~UsesMemoryTrack)

\* the remembered speed has faded to the threshold in memory mode, and the
\* latest update_ins extrapolated inertially
C24_Witness ==
    /\ program = "app"
    /\ call.op = "update_ins"
    /\ fusion.is_memory_mode
    /\ fusion.memory_speed = MOTION_THRESHOLD
    /\ ret # None /\ Val(ret).mode = "ins"

\* the memory-mode flag of the engine e is set exactly when its entry
\* timestamp is
FlagMatchesTimestamp(e) ==
    e.is_memory_mode <=> e.memory_mode_start_time # None

\* C25: in every state of either engine is_memory_mode is true if and only
\* if memory_mode_start_time is set
C25_FlagConsistentWithTimestamp ==
    /\ program = "app" => FlagMatchesTimestamp(fusion)
    /\ program = "viewer" => FlagMatchesTimestamp(vfusion)

\* the step is an update_ins that extrapolated from memory
ExtrapolatedFromMemory ==
    \/ /\ program = "app" /\ InsCall
       /\ ret' # None /\ Val(ret').mode = "memory_track"
    \/ /\ program = "viewer" /\ InsCall
       /\ Len(vfusion'.track) = Len(vfusion.track) + 1
       /\ Last(vfusion'.track)[3] = "memory"

\* the memory-mode flag and entry timestamp of an engine
MemoryEntry(e) == <<e.is_memory_mode, e.memory_mode_start_time>>

\* C26: a poor fix given to an engine whose memory-mode flag is set leaves
\* the flag and the entry timestamp alone, and an update_ins extrapolates
\* from memory only less than 60 s after the first poor fix since the last
\* good one
C26_OutageTimedFromFirstPoorFix ==
    [][ /\ GpsCall /\ PoorAccuracy(FixAccuracy(call')) =>
              /\ program = "app" /\ fusion.is_memory_mode =>
                    MemoryEntry(fusion') = MemoryEntry(fusion)
              /\ program = "viewer" /\ vfusion.is_memory_mode =>
                    MemoryEntry(vfusion') = MemoryEntry(vfusion)
        /\ ExtrapolatedFromMemory =>
              /\ outage # None
              /\ now - Val(outage) < MEMORY_MAX_DURATION ]_vars

\* a poor fix has reached an engine in memory mode 60 s after the outage
\* began, and the entry timestamp is still that of the beginning
C26_Witness ==
    /\ program = "app"
    /\ call.op = "update_gps"
    /\ PoorAccuracy(FixAccuracy(call))
    /\ fusion.is_memory_mode
    /\ outage # None
    /\ fusion.memory_mode_start_time = outage
    /\ Val(outage) < now

\* the step sets the memory-mode flag of the engine in use
EntersMemoryTrack ==
    \/ program = "app" /\ ~fusion.is_memory_mode /\ fusion'.is_memory_mode
    \/ program = "viewer" /\ ~vfusion.is_memory_mode /\ vfusion'.is_memory_mode

\* the remembered speed and heading of the engine e are those of the fix g
RemembersFix(e, g) ==
    /\ g[3] > MOTION_THRESHOLD
    /\ e.memory_speed = g[3]
    /\ e.memory_heading = Radians(g[4])

\* C27: when the memory-mode flag is set, the remembered speed and heading
\* are those of the latest good fix, which reported a speed above 0.3 m/s
C27_RemembersLatestGoodFix ==
    [][ EntersMemoryTrack =>
          /\ last_good' # None
          /\ program = "app" => RemembersFix(fusion', Val(last_good'))
          /\ program = "viewer" => RemembersFix(vfusion', Val(last_good')) ]_vars

\* accuracy in the fair band
FairAccuracy(accuracy) == accuracy >= 15 /\ accuracy < 30

\* latitude and longitude of either engine as numbers
PositionOf(e) ==
    IF program = "app" THEN <<Val(e.current_lat), Val(e.current_lon)>>
    ELSE <<e.current_lat, e.current_lon>>

\* the step took the engine old to new by blending a fair fix into its
\* position and appending the result, the memory-mode entry left alone
FairFixBlended(old, new, fix) ==
    /\ MemoryEntry(new) = MemoryEntry(old)
    /\ \A i \in 1..2 :
          BlendedCoordinate(PositionOf(old)[i], PositionOf(new)[i], fix[i],
                            fix[5])
    /\ Len(new.track) = Len(old.track) + 1
    /\ <<Last(new.track)[1], Last(new.track)[2]>> = PositionOf(new)

\* the step took the engine old to new by moving it from where it was with
\* the faded remembered speed along the remembered heading
MovedFromMemory(old, new, dt) ==
    /\ PositionOf(new)[1] =
           PositionOf(old)[1]
           + ArcDegrees(NorthOf(new.memory_speed, new.memory_heading) * dt)
    /\ PositionOf(new)[2] =
           PositionOf(old)[2]
           + DeltaLon(EastOf(new.memory_speed, new.memory_heading), dt,
                      PositionOf(old)[1])

\* the engine e would pass the memory test at now
MemoryUsable(e) ==
    /\ e.is_memory_mode
    /\ e.memory_mode_start_time # None
    /\ now - Val(e.memory_mode_start_time) < MEMORY_MAX_DURATION
    /\ e.memory_speed > MOTION_THRESHOLD

\* C28: in memory mode update_gps with a fair fix blends the fix into the
\* position and appends it to the track but leaves the flag and the entry
\* timestamp alone; the update_ins that follows, within 60 s of the entry
\* and with a remembered speed above 0.3 m/s, extrapolates from memory,
\* starting at the blended position
C28_FairFixKeepsMemoryTrack ==
    [][ /\ GpsCall /\ FairAccuracy(FixAccuracy(call')) =>
              /\ program = "app" /\ fusion.is_memory_mode =>
                    FairFixBlended(fusion, fusion', call'.args)
              /\ program = "viewer" /\ vfusion.is_memory_mode =>
                    FairFixBlended(vfusion, vfusion', call'.args)
        /\ InsCall /\ call.op = "update_gps" /\ FairAccuracy(FixAccuracy(call)) =>
              /\ program = "app" /\ MemoryUsable(fusion) =>
                    /\ ExtrapolatedFromMemory
                    /\ MovedFromMemory(fusion, fusion', SampleDt(call'))
              /\ program = "viewer" /\ MemoryUsable(vfusion)
                     /\ SampleDt(call') > 0 =>
                    /\ ExtrapolatedFromMemory
                    /\ MovedFromMemory(vfusion, vfusion', SampleDt(call')) ]_vars

\* a fair fix has been blended into the position of an engine in memory
\* mode, which the next update_ins will extrapolate from memory
C28_Witness ==
    /\ program = "app"
    /\ call.op = "update_gps"
    /\ FairAccuracy(FixAccuracy(call))
    /\ UsesMemoryTrack
    /\ Val(fusion.current_lat) > 3568000
    /\ Val(fusion.current_lat) < 3568100

\* the step is a tick of the app
TickStep == program = "app" /\ steps' = steps + 1

\* C29: at the end of every tick _dr_mode is true exactly when the fallback
\* is active; a tick that begins an outage stamps the activation with its
\* own time, and a tick that continues one leaves the stamp alone
C29_OutageFlagMatchesFallback ==
    /\ [](program = "app" => (view.dr_mode <=> dead_reckoning.is_active))
    /\ [][ TickStep =>
             /\ ~view.dr_mode /\ view'.dr_mode =>
                   dead_reckoning'.dr_start_time = Some(now')
             /\ view.dr_mode /\ view'.dr_mode =>
                   dead_reckoning'.dr_start_time = dead_reckoning.dr_start_time
             /\ ~view'.dr_mode => dead_reckoning'.dr_start_time = None ]_vars

\* an outage has lasted beyond the tick that began it
C29_Witness ==
    /\ program = "app"
    /\ view.dr_mode
    /\ dead_reckoning.is_active
    /\ dead_reckoning.dr_start_time # None
    /\ Val(dead_reckoning.dr_start_time) < now

\* start_dead_reckoning has just activated the fallback where the last fix
\* left it: an outage begins
OutageBegins ==
    /\ call.op = "start_dead_reckoning"
    /\ dead_reckoning.is_active
    /\ dead_reckoning.current_lat = dead_reckoning.last_gps_lat
    /\ dead_reckoning.current_lon = dead_reckoning.last_gps_lon
    /\ dead_reckoning.current_heading = Radians(dead_reckoning.last_gps_course)

\* C30: the first update_with_sensors of an outage, the first outage or a
\* later one, adds a yaw difference of 0, so the heading after it is the
\* course of the last fix
C30_FirstStepKeepsCourse ==
    [][ DrSensorsCall /\ OutageBegins =>
          /\ dead_reckoning'.current_heading =
                 Radians(dead_reckoning.last_gps_course)
          /\ dead_reckoning'.current_heading = dead_reckoning.current_heading ]_vars

====
